---- MODULE Spec2Model ----
(***************************************************************************)
(* Model of the Sticker Component Analyzer Figma plugin (src/src/ui.tsx):  *)
(* the plugin controller's scene construction (processImageAnalysisResults *)
(* and the IMAGE_ANALYSIS_COMPLETE handler around it) and the UI panel's   *)
(* import handlers.  Strings built by template literals are modelled as    *)
(* tuples of their parts; JavaScript values that may be undefined are      *)
(* modelled by the string "undefined" or by a record with a defined flag.  *)
(***************************************************************************)
EXTENDS Integers, Sequences, FiniteSets, Bags, TLC

\* ---------------------------------------------------------------- bounds
MaxColors == 2
MaxTypography == 2
MaxComponents == 3
MaxPending == 1
MaxRuns == 2
MaxInbox == 2
MaxExternal == 1

\* ------------------------------------------------------- input universes
ColorNames == {"a", "b"}
RGBs == {"rgb1", "rgb2"}
Opacities == {"undefined", "0.5"}
FontSizes == {"undefined", "16"}
FontFamilies == {"Inter", "Roboto"}
FontStyles == {"Regular", "Bold"}
SampleTexts == {"", "Hello"}
ComponentNames == {"Btn", "Card", ""}
FillsValues == {"undefined", "fills"}

NoFontName == [defined |-> FALSE, family |-> "", style |-> ""]
FontNameOf(f, s) == [defined |-> TRUE, family |-> f, style |-> s]
InterRegular == FontNameOf("Inter", "Regular")
InterBold == FontNameOf("Inter", "Bold")

\* ColorData, TypographyData, ComponentData: the fields the controller reads.
ColorData == [name : ColorNames, color : RGBs, opacity : Opacities]
FontNames ==
    {NoFontName, FontNameOf("Inter", "Regular"), FontNameOf("Inter", "Bold"),
     FontNameOf("Roboto", "Regular")}
TypographyData == [text : SampleTexts, fontName : FontNames, fontSize : FontSizes]
ComponentData == [name : ComponentNames, width : {10}, height : {20}, fills : FillsValues]

SeqsUpTo(S, n) == UNION {[1..k -> S] : k \in 0..n}

\* ------------------------------------------------------------- variables
VARIABLES
    imageData,      \* the ImageAnalysisResult handed to the controller
    hostFonts,      \* fonts figma.loadFontAsync can load
    styles0,        \* the document's local styles before the run
    styles,         \* the document's local styles, in creation order
    pc,             \* the controller's position in the handler
    idx,            \* loop index i of the loop under way
    parentFrame,    \* children of the parent frame
    section,        \* children of the section frame under construction
    colorRow,       \* children of the 'Colors' row under construction
    textGroups,     \* the typography groups, in key insertion order
    hasVariants,    \* local hasVariants
    builderCalls,   \* calls made to ComponentBuilder, in order, with outcome
    page,           \* figma.currentPage children appended by the plugin
    selection,      \* figma.currentPage.selection
    posted,         \* messages posted to the UI by the handler
    thrown,         \* the call whose error escaped processImageAnalysisResults
    timers,         \* pending setTimeout callbacks of the controller
    closed,         \* number of figma.closePlugin invocations
    \* the UI panel (function Plugin)
    imageFile,          \* useState imageFile
    imagePreview,       \* useState imagePreview
    isProcessing,       \* useState isProcessing
    error,              \* useState error
    statusMessage,      \* useState statusMessage
    importedJsonData,   \* useState importedJsonData
    importMethod,       \* useState importMethod
    mounted,            \* whether the mount effect has run
    clipboardApi,       \* whether navigator.clipboard.readText exists
    manualPasteShown,   \* whether showManualPasteOption has added its container
    pending,            \* bag of FileReader and clipboard reads under way
    run,                \* position of the analyzeImage call under way
    analysisResult,     \* local analysisResult of analyzeImage
    runs,               \* analyzeImage calls started
    uiRead,             \* how many of the posted messages the panel has handled
    warned,             \* console.warn calls of analyzeImage (enrichment failures)
    \* the channels between panel, controller and host
    inbox,              \* messages emitted by the panel, not yet handled by the controller
    onceHandlers,       \* names whose `once` handler is still registered
    handled,            \* IMAGE_ANALYSIS_COMPLETE messages the controller has received
    externals,          \* window message events the controller has received
    coreCalls,          \* payloads handed to UnifiedCore.processComponentData, in order
    corePending,        \* bag of processComponentData promises not yet settled
    notifications       \* figma.notify calls, in order

ctlVars == <<imageData, hostFonts, styles0, styles, pc, idx, parentFrame, section,
             colorRow, textGroups, hasVariants, builderCalls, page, selection,
             posted, thrown, timers, closed>>

uiVars == <<imageFile, imagePreview, isProcessing, error, statusMessage, importedJsonData,
            importMethod, mounted, clipboardApi, manualPasteShown, pending>>

\* the analyzeImage run, the message channels and the external message listener
sessVars == <<run, analysisResult, runs, uiRead, warned, inbox, onceHandlers, handled, externals,
              coreCalls, corePending, notifications>>

vars == <<ctlVars, uiVars, sessVars>>

\* ------------------------------------------------------ host scene graph
\* figma.getStyleByName: the first local style with that name, or none (0).
StyleIndex(ss, name) ==
    IF \E k \in 1..Len(ss) : ss[k].name = name
    THEN CHOOSE k \in 1..Len(ss) : ss[k].name = name /\ \A j \in 1..(k - 1) : ss[j].name # name
    ELSE 0

\* `x || d` on a value that is undefined, 0 or the empty string.
OrElse(x, d) == IF x \in {"undefined", "0", ""} THEN d ELSE x

\* `Color/${colorData.name}`
ColorStyleName(c) == <<"Color/", c.name>>

\* the SolidPaint built from a ColorData
PaintOf(c) == [type |-> "SOLID", color |-> c.color, opacity |-> OrElse(c.opacity, "1")]

\* mutant of GroupKey: the font style is part of the key
GroupKeyWithStyle(t) ==
    <<OrElse(t.fontSize, "unknown"), "-",
      IF t.fontName.defined THEN OrElse(t.fontName.family, "unknown") ELSE "unknown",
      IF t.fontName.defined THEN t.fontName.style ELSE "unknown">>

\* the grouping key `${text.fontSize || 'unknown'}-${text.fontName?.family || 'unknown'}`
GroupKey(t) ==
    <<OrElse(t.fontSize, "unknown"), "-",
      IF t.fontName.defined THEN OrElse(t.fontName.family, "unknown") ELSE "unknown">>

KeyIndex(groups, key) ==
    IF \E k \in 1..Len(groups) : groups[k].key = key
    THEN CHOOSE k \in 1..Len(groups) : groups[k].key = key
    ELSE 0

\* the loop filling textGroups: one group per key, in first-occurrence order
RECURSIVE GroupTypography(_, _)
GroupTypography(typo, groups) ==
    IF typo = <<>> THEN groups
    ELSE LET t == Head(typo)
             k == KeyIndex(groups, GroupKey(t))
         IN  GroupTypography(Tail(typo),
                 IF k = 0
                 THEN Append(groups, [key |-> GroupKey(t), items |-> <<t>>])
                 ELSE [groups EXCEPT ![k].items = Append(@, t)])

SampleFontSize(sample) == OrElse(sample.fontSize, "16")
SampleFontName(sample) == IF sample.fontName.defined THEN sample.fontName ELSE InterRegular

\* `Text/${fontName.family}-${fontName.style}/${fontSize}px`
TextStyleName(sample) ==
    <<"Text/", SampleFontName(sample).family, "-", SampleFontName(sample).style, "/",
      SampleFontSize(sample), "px">>

\* mutant of HasItems: a one-element list is taken for empty
HasItemsOffByOne(list) == Len(list) > 1

\* `imageData.xs && imageData.xs.length > 0`: a section is built for a non-empty list
HasItems(list) == Len(list) > 0

\* figma.loadFontAsync(fontName) resolves iff the host has the font.
FontLoads(f) == <<f.family, f.style>> \in hostFonts

TitleNode(chars) ==
    [kind |-> "TEXT", characters |-> chars, fontName |-> InterBold, fontSize |-> "16"]

SectionNode(name, children) == [kind |-> "FRAME", name |-> name, children |-> children]

\* ------------------------------------------- IMAGE_ANALYSIS_COMPLETE handler
\* mutant of HandlerCatch: the teardown is scheduled in the try block only
HandlerCatchNoFinally(cause) ==
    /\ pc' = "done"
    /\ thrown' = cause
    /\ posted' = Append(posted, [type |-> "CREATION_ERROR"])
    /\ UNCHANGED timers

\* The catch and finally blocks of the handler, run when construction throws.
HandlerCatch(cause) ==
    /\ pc' = "done"
    /\ thrown' = cause
    /\ posted' = Append(posted, [type |-> "CREATION_ERROR"])
    /\ timers' = timers + 1

\* The handler starts processImageAnalysisResults: the parent frame is created.
StartConstruction ==
    /\ pc = "idle"
    /\ pc' = "colors"
    /\ UNCHANGED <<uiVars, sessVars>>
    /\ UNCHANGED <<imageData, hostFonts, styles0, styles, idx, parentFrame, section,
                   colorRow, textGroups, hasVariants, builderCalls, page, selection,
                   posted, thrown, timers, closed>>

\* 1. the colour section: frame, title, row.
BeginColors ==
    /\ pc = "colors"
    /\ IF HasItems(imageData.colors)
       THEN IF FontLoads(InterBold)
            THEN /\ section' = <<TitleNode("Color Styles")>>
                 /\ colorRow' = <<>>
                 /\ idx' = 1
                 /\ pc' = "colorItem"
                 /\ UNCHANGED <<posted, thrown, timers>>
            ELSE /\ HandlerCatch("loadFontAsync")
                 /\ UNCHANGED <<section, colorRow, idx>>
       ELSE /\ pc' = "typography"
            /\ UNCHANGED <<section, colorRow, idx, posted, thrown, timers>>
    /\ UNCHANGED <<uiVars, sessVars>>
    /\ UNCHANGED <<imageData, hostFonts, styles0, styles, parentFrame, textGroups,
                   hasVariants, builderCalls, page, selection, closed>>

\* mutant of PaintStylesAfter: no lookup, a style is created for every colour
PaintStylesAfterNoLookup(ss, c) ==
    Append(ss, [type |-> "PAINT", name |-> ColorStyleName(c), paints |-> <<PaintOf(c)>>])

\* the paint style a swatch links to: the style found by name, else a new one
PaintStylesAfter(ss, c) ==
    IF StyleIndex(ss, ColorStyleName(c)) = 0
    THEN Append(ss, [type |-> "PAINT", name |-> ColorStyleName(c), paints |-> <<PaintOf(c)>>])
    ELSE ss

SwatchWrapper(ss, c) ==
    [kind |-> "FRAME", name |-> <<"Color-", c.name, "-Wrapper">>,
     children |-> <<[kind |-> "RECTANGLE", name |-> c.name, fills |-> <<PaintOf(c)>>,
                     fillStyleId |-> StyleIndex(PaintStylesAfter(ss, c), ColorStyleName(c))],
                    [kind |-> "TEXT", characters |-> c.name, fontSize |-> "11"]>>]

\* one iteration of the loop over imageData.colors
ColorItem ==
    /\ pc = "colorItem"
    /\ idx <= Len(imageData.colors)
    /\ LET c == imageData.colors[idx] IN
       /\ styles' = PaintStylesAfter(styles, c)
       /\ IF FontLoads(InterRegular)
          THEN /\ colorRow' = Append(colorRow, SwatchWrapper(styles, c))
               /\ idx' = idx + 1
               /\ UNCHANGED <<pc, posted, thrown, timers>>
          ELSE /\ HandlerCatch("loadFontAsync")
               /\ UNCHANGED <<colorRow, idx>>
    /\ UNCHANGED <<uiVars, sessVars>>
    /\ UNCHANGED <<imageData, hostFonts, styles0, parentFrame, section, textGroups,
                   hasVariants, builderCalls, page, selection, closed>>

\* after the loop: the row joins the section, the section joins the parent frame
ColorsDone ==
    /\ pc = "colorItem"
    /\ idx > Len(imageData.colors)
    /\ parentFrame' = Append(parentFrame,
           SectionNode("Color Palette",
                       Append(section, SectionNode("Colors", colorRow))))
    /\ section' = <<>>
    /\ colorRow' = <<>>
    /\ pc' = "typography"
    /\ UNCHANGED <<uiVars, sessVars>>
    /\ UNCHANGED <<imageData, hostFonts, styles0, styles, idx, textGroups, hasVariants,
                   builderCalls, page, selection, posted, thrown, timers, closed>>

\* 2. the typography section: frame, title, grouping
BeginTypography ==
    /\ pc = "typography"
    /\ IF HasItems(imageData.typography)
       THEN IF FontLoads(InterBold)
            THEN /\ section' = <<TitleNode("Text Styles")>>
                 /\ textGroups' = GroupTypography(imageData.typography, <<>>)
                 /\ idx' = 1
                 /\ pc' = "typoGroup"
                 /\ UNCHANGED <<posted, thrown, timers>>
            ELSE /\ HandlerCatch("loadFontAsync")
                 /\ UNCHANGED <<section, textGroups, idx>>
       ELSE /\ pc' = "components"
            /\ UNCHANGED <<section, textGroups, idx, posted, thrown, timers>>
    /\ UNCHANGED <<uiVars, sessVars>>
    /\ UNCHANGED <<imageData, hostFonts, styles0, styles, parentFrame, colorRow,
                   hasVariants, builderCalls, page, selection, closed>>

\* mutant of TextStylesAfter: no lookup, a style is created for every group
TextStylesAfterNoLookup(ss, sample, loaded) ==
    Append(ss, [type |-> "TEXT", name |-> TextStyleName(sample),
                fontName |-> IF loaded THEN SampleFontName(sample) ELSE NoFontName,
                fontSize |-> IF loaded THEN SampleFontSize(sample) ELSE "undefined"])

\* createTextStyle and style.name = styleName; fontName and fontSize are set only
\* after the font has loaded
TextStylesAfter(ss, sample, loaded) ==
    IF StyleIndex(ss, TextStyleName(sample)) = 0
    THEN Append(ss, [type |-> "TEXT", name |-> TextStyleName(sample),
                     fontName |-> IF loaded THEN SampleFontName(sample) ELSE NoFontName,
                     fontSize |-> IF loaded THEN SampleFontSize(sample) ELSE "undefined"])
    ELSE ss

SampleTextNode(ss, sample) ==
    [kind |-> "TEXT",
     characters |-> IF sample.text # "" THEN <<sample.text>>
                    ELSE <<SampleFontName(sample).family, " ", SampleFontSize(sample), "px">>,
     fontName |-> SampleFontName(sample),
     fontSize |-> SampleFontSize(sample),
     textStyleId |-> StyleIndex(TextStylesAfter(ss, sample, TRUE), TextStyleName(sample))]

\* one iteration of the loop over the groups
TypographyGroup ==
    /\ pc = "typoGroup"
    /\ idx <= Len(textGroups)
    /\ LET sample == textGroups[idx].items[1]
           loaded == FontLoads(SampleFontName(sample))
       IN
       /\ styles' = TextStylesAfter(styles, sample, loaded)
       /\ IF loaded
          THEN /\ section' = Append(section, SampleTextNode(styles, sample))
               /\ idx' = idx + 1
               /\ UNCHANGED <<pc, posted, thrown, timers>>
          ELSE /\ HandlerCatch("loadFontAsync")
               /\ UNCHANGED <<section, idx>>
    /\ UNCHANGED <<uiVars, sessVars>>
    /\ UNCHANGED <<imageData, hostFonts, styles0, parentFrame, colorRow, textGroups,
                   hasVariants, builderCalls, page, selection, closed>>

TypographyDone ==
    /\ pc = "typoGroup"
    /\ idx > Len(textGroups)
    /\ parentFrame' = Append(parentFrame, SectionNode("Typography", section))
    /\ section' = <<>>
    /\ pc' = "components"
    /\ UNCHANGED <<uiVars, sessVars>>
    /\ UNCHANGED <<imageData, hostFonts, styles0, styles, idx, colorRow, textGroups,
                   hasVariants, builderCalls, page, selection, posted, thrown, timers,
                   closed>>

\* ComponentBuilder.createSystemComponent(data): the node it returns when it succeeds
CreateSystemComponent(comp) ==
    [kind |-> "COMPONENT", via |-> "createSystemComponent", data |-> comp]

\* ComponentBuilder.createComponentSet(variants): the node it returns when it succeeds
CreateComponentSet(comps) ==
    [kind |-> "COMPONENT_SET", via |-> "createComponentSet", variants |-> comps]

\* mutant of FallbackComponent: the default name counts from the loop index
FallbackComponentZeroBased(comp, i) ==
    [kind |-> "COMPONENT", via |-> "createComponent",
     width |-> comp.width, height |-> comp.height,
     name |-> IF comp.name # "" THEN <<comp.name>> ELSE <<"Component ", ToString(i - 1)>>,
     fills |-> IF comp.fills # "undefined" THEN comp.fills ELSE "default"]

\* the catch block of the per-component try: figma.createComponent, resize, name, fills
FallbackComponent(comp, i) ==
    [kind |-> "COMPONENT", via |-> "createComponent",
     width |-> comp.width, height |-> comp.height,
     name |-> IF comp.name # "" THEN <<comp.name>> ELSE <<"Component ", ToString(i)>>,
     fills |-> IF comp.fills # "undefined" THEN comp.fills ELSE "default"]

\* mutant of LooksLikeVariants: every name is compared with the first
LooksLikeVariantsAllNames(comps) ==
    Len(comps) > 1 /\ \A k \in 1..Len(comps) : comps[k].name = comps[1].name

\* the variant heuristic: more than one component and the first two names equal
LooksLikeVariants(comps) == Len(comps) > 1 /\ comps[1].name = comps[2].name

\* mutant of AfterVariantCheck: the individual loop runs after the variant set as well
AfterVariantCheckAlways(hv) == "componentItem"

\* `if (!hasVariants)`: the individual loop runs only without variants
AfterVariantCheck(hv) == IF ~hv THEN "componentItem" ELSE "componentsEnd"

\* 3. the components section: frame, title, variant detection
BeginComponents ==
    /\ pc = "components"
    /\ IF HasItems(imageData.components)
       THEN IF FontLoads(InterBold)
            THEN /\ section' = <<TitleNode("UI Components")>>
                 /\ hasVariants' = LooksLikeVariants(imageData.components)
                 /\ idx' = 1
                 /\ pc' = IF LooksLikeVariants(imageData.components)
                          THEN "componentSet" ELSE AfterVariantCheck(FALSE)
                 /\ UNCHANGED <<posted, thrown, timers>>
            ELSE /\ HandlerCatch("loadFontAsync")
                 /\ UNCHANGED <<section, hasVariants, idx>>
       ELSE /\ pc' = "finish"
            /\ UNCHANGED <<section, hasVariants, idx, posted, thrown, timers>>
    /\ UNCHANGED <<uiVars, sessVars>>
    /\ UNCHANGED <<imageData, hostFonts, styles0, styles, parentFrame, colorRow, textGroups,
                   builderCalls, page, selection, closed>>

\* mutant of ComponentSetStep: the catch block leaves hasVariants set
ComponentSetStepNoDemotion ==
    /\ pc = "componentSet"
    /\ \E ok \in BOOLEAN :
         /\ builderCalls' = Append(builderCalls,
                [fn |-> "createComponentSet", arg |-> imageData.components, ok |-> ok])
         /\ section' = IF ok THEN Append(section, CreateComponentSet(imageData.components))
                       ELSE section
    /\ pc' = AfterVariantCheck(hasVariants)
    /\ UNCHANGED <<uiVars, sessVars>>
    /\ UNCHANGED <<imageData, hostFonts, styles0, styles, idx, parentFrame, colorRow,
                   textGroups, hasVariants, page, selection, posted, thrown, timers,
                   closed>>

\* the try around ComponentBuilder.createComponentSet(variantComponents)
ComponentSetStep ==
    /\ pc = "componentSet"
    /\ \E ok \in BOOLEAN :
         /\ builderCalls' = Append(builderCalls,
                [fn |-> "createComponentSet", arg |-> imageData.components, ok |-> ok])
         /\ IF ok
            THEN /\ section' = Append(section, CreateComponentSet(imageData.components))
                 /\ UNCHANGED hasVariants
            ELSE /\ hasVariants' = FALSE
                 /\ UNCHANGED section
         /\ pc' = AfterVariantCheck(hasVariants')
    /\ UNCHANGED <<uiVars, sessVars>>
    /\ UNCHANGED <<imageData, hostFonts, styles0, styles, idx, parentFrame, colorRow, textGroups,
                   page, selection, posted, thrown, timers, closed>>

\* mutant of ComponentItem: the catch block logs and substitutes nothing
ComponentItemNoFallback ==
    /\ pc = "componentItem"
    /\ idx <= Len(imageData.components)
    /\ \E ok \in BOOLEAN :
         /\ builderCalls' = Append(builderCalls,
                [fn |-> "createSystemComponent", arg |-> <<imageData.components[idx]>>,
                 ok |-> ok])
         /\ section' = IF ok
                       THEN Append(section, CreateSystemComponent(imageData.components[idx]))
                       ELSE section
    /\ idx' = idx + 1
    /\ UNCHANGED <<uiVars, sessVars>>
    /\ UNCHANGED <<imageData, hostFonts, styles0, styles, pc, parentFrame, colorRow,
                   textGroups, hasVariants, page, selection, posted, thrown, timers,
                   closed>>

\* mutant of ComponentItem: no try around the builder call, its error escapes
ComponentItemUnguarded ==
    /\ pc = "componentItem"
    /\ idx <= Len(imageData.components)
    /\ \E ok \in BOOLEAN :
         /\ builderCalls' = Append(builderCalls,
                [fn |-> "createSystemComponent", arg |-> <<imageData.components[idx]>>,
                 ok |-> ok])
         /\ IF ok
            THEN /\ section' = Append(section,
                                      CreateSystemComponent(imageData.components[idx]))
                 /\ idx' = idx + 1
                 /\ UNCHANGED <<pc, posted, thrown, timers>>
            ELSE /\ HandlerCatch("createSystemComponent")
                 /\ UNCHANGED <<section, idx>>
    /\ UNCHANGED <<uiVars, sessVars>>
    /\ UNCHANGED <<imageData, hostFonts, styles0, styles, parentFrame, colorRow,
                   textGroups, hasVariants, page, selection, closed>>

\* one iteration of the loop over imageData.components, with its try and catch
ComponentItem ==
    /\ pc = "componentItem"
    /\ idx <= Len(imageData.components)
    /\ \E ok \in BOOLEAN :
         /\ builderCalls' = Append(builderCalls,
                [fn |-> "createSystemComponent", arg |-> <<imageData.components[idx]>>,
                 ok |-> ok])
         /\ section' = Append(section,
                IF ok THEN CreateSystemComponent(imageData.components[idx])
                ELSE FallbackComponent(imageData.components[idx], idx))
    /\ idx' = idx + 1
    /\ UNCHANGED <<uiVars, sessVars>>
    /\ UNCHANGED <<imageData, hostFonts, styles0, styles, pc, parentFrame, colorRow, textGroups,
                   hasVariants, page, selection, posted, thrown, timers, closed>>

ComponentsLoopDone ==
    /\ pc = "componentItem"
    /\ idx > Len(imageData.components)
    /\ pc' = "componentsEnd"
    /\ UNCHANGED <<uiVars, sessVars>>
    /\ UNCHANGED <<imageData, hostFonts, styles0, styles, idx, parentFrame, section, colorRow,
                   textGroups, hasVariants, builderCalls, page, selection, posted, thrown,
                   timers, closed>>

\* the components section joins the parent frame
ComponentsDone ==
    /\ pc = "componentsEnd"
    /\ parentFrame' = Append(parentFrame, SectionNode("Components", section))
    /\ section' = <<>>
    /\ pc' = "finish"
    /\ UNCHANGED <<uiVars, sessVars>>
    /\ UNCHANGED <<imageData, hostFonts, styles0, styles, idx, colorRow, textGroups, hasVariants,
                   builderCalls, page, selection, posted, thrown, timers, closed>>

\* the parent frame joins the page and is returned; the handler selects it, posts
\* CREATION_COMPLETE and, in its finally block, schedules the teardown
FinishConstruction ==
    /\ pc = "finish"
    /\ page' = Append(page, SectionNode("Sticker Component Analysis", parentFrame))
    /\ selection' = <<SectionNode("Sticker Component Analysis", parentFrame)>>
    /\ posted' = Append(posted, [type |-> "CREATION_COMPLETE"])
    /\ timers' = timers + 1
    /\ pc' = "done"
    /\ UNCHANGED <<uiVars, sessVars>>
    /\ UNCHANGED <<imageData, hostFonts, styles0, styles, idx, parentFrame, section, colorRow,
                   textGroups, hasVariants, builderCalls, thrown, closed>>

\* setTimeout(() => figma.closePlugin(), 2000)
TeardownTimer ==
    /\ timers > 0
    /\ closed = 0
    /\ timers' = timers - 1
    /\ closed' = closed + 1
    /\ UNCHANGED <<uiVars, sessVars>>
    /\ UNCHANGED <<imageData, hostFonts, styles0, styles, pc, idx, parentFrame, section, colorRow,
                   textGroups, hasVariants, builderCalls, page, selection, posted, thrown>>

NextBuild ==
    \/ StartConstruction
    \/ BeginColors \/ ColorItem \/ ColorsDone
    \/ BeginTypography \/ TypographyGroup \/ TypographyDone
    \/ BeginComponents \/ ComponentSetStep \/ ComponentItem \/ ComponentsLoopDone
    \/ ComponentsDone
    \/ FinishConstruction
    \/ TeardownTimer

\* ------------------------------------------------------------ initial states
AllHostFonts == {<<f, s>> : f \in FontFamilies, s \in FontStyles}

\* the document before the run: no styles, or styles left by an earlier session
OldPaintStyle ==
    [type |-> "PAINT", name |-> <<"Color/", "a">>,
     paints |-> <<[type |-> "SOLID", color |-> "rgbOld", opacity |-> "1"]>>]
OldTextStyle ==
    [type |-> "TEXT", name |-> <<"Text/", "Inter", "-", "Regular", "/", "16", "px">>,
     fontName |-> InterRegular, fontSize |-> "16"]
InitialStyles == {<<>>, <<OldPaintStyle>>, <<OldTextStyle>>, <<OldPaintStyle, OldTextStyle>>}

InitController(colorLists, typoLists, componentLists, fontChoices, styleChoices) ==
    /\ imageData \in [colors : colorLists, typography : typoLists,
                      components : componentLists]
    /\ hostFonts \in fontChoices
    /\ styles0 \in styleChoices
    /\ styles = styles0
    /\ pc = "idle"
    /\ idx = 1
    /\ parentFrame = <<>>
    /\ section = <<>>
    /\ colorRow = <<>>
    /\ textGroups = <<>>
    /\ hasVariants = FALSE
    /\ builderCalls = <<>>
    /\ page = <<>>
    /\ selection = <<>>
    /\ posted = <<>>
    /\ thrown = "none"
    /\ timers = 0
    /\ closed = 0
    /\ inbox = <<>>
    /\ onceHandlers = {"IMAGE_ANALYSIS_COMPLETE", "CLOSE_PLUGIN"}
    /\ handled = 0
    /\ externals = <<>>
    /\ coreCalls = <<>>
    /\ corePending = EmptyBag
    /\ notifications = <<>>

\* ------------------------------------------------------------- the UI panel
\* JSON values a file or the clipboard can hold.  A field is "absent", falsy ("" for
\* version, "null" elsewhere) or truthy.
AbsentAnalysis ==
    [state |-> "absent", colors |-> "absent", typography |-> "absent",
     components |-> "absent", originalImage |-> "absent"]
NullAnalysis == [AbsentAnalysis EXCEPT !.state = "null"]
AnalysisObjects ==
    {a \in [state : {"object"}, colors : {"absent", "null", "array"},
            typography : {"absent", "array"}, components : {"absent", "array"},
            originalImage : {"absent", "img"}] :
        LET given == {f \in {"colors", "typography", "components"} : a[f] # "absent"}
        IN  /\ Cardinality(given) \in {0, 1, 3}
            /\ a.colors = "null" => Cardinality(given) = 1
            /\ a.originalImage = "img" => Cardinality(given) = 3}
FullAnalysis ==
    [state |-> "object", colors |-> "array", typography |-> "array",
     components |-> "array", originalImage |-> "absent"]
Versions == {"absent", "", "1.0"}
JsonObjects ==
    {v \in [type : {"object"}, version : Versions,
            imageAnalysis : {AbsentAnalysis, NullAnalysis} \cup AnalysisObjects] :
        v.version = "1.0" \/ v.imageAnalysis \in {AbsentAnalysis, FullAnalysis}}
\* two payloads both validations accept
FullPayload == [type |-> "object", version |-> "1.0", imageAnalysis |-> FullAnalysis]
TypographyOnlyPayload ==
    [type |-> "object", version |-> "1.0",
     imageAnalysis |-> [FullAnalysis EXCEPT !.colors = "absent", !.components = "absent"]]

JsonNull == [type |-> "null", version |-> "absent", imageAnalysis |-> AbsentAnalysis]
JsonNumber == [type |-> "number", version |-> "absent", imageAnalysis |-> AbsentAnalysis]
JsonValues == JsonObjects \cup {JsonNull, JsonNumber}

\* the text of a file, of the clipboard or of a textarea
Texts ==
    {[kind |-> k, value |-> JsonNull] : k \in {"empty", "blank", "garbage"}}
    \cup {[kind |-> "json", value |-> v] : v \in JsonValues}
NotJsonText == [kind |-> "garbage", value |-> JsonNull]
EmptyText == [kind |-> "empty", value |-> JsonNull]

ImageFiles == {"a.png", "b.png"}

\* JavaScript truthiness of a modelled value
Truthy(x) == x \notin {"absent", "null", "", "undefined"}

\* `!text || text.trim() === ''`
IsBlank(text) == text.kind \in {"empty", "blank"}

\* JSON.parse(text) returns (it throws a SyntaxError otherwise)
Parses(text) == text.kind = "json"

\* importedJsonData === null, no image file, error === null
Unset == [type |-> "unset"]
NoFile == "<null>"
NoError == "<null>"

\* `data:image/jpeg;base64,${originalImage}`
JsonPreview(v) == <<"data:image/jpeg;base64,", v.imageAnalysis.originalImage>>
\* FileReader.readAsDataURL(file)
FilePreview(f) == <<"data:", f>>
NoPreview == <<>>

\* the validation of handleJsonFileImport: jsonData.version && jsonData.imageAnalysis
FileValid(v) == Truthy(v.version) /\ Truthy(v.imageAnalysis.state)

\* mutant of ClipboardValid: the check for one of colors, typography, components is left out
ClipboardValidNoSections(v) ==
    v.type # "null" /\ Truthy(v.version) /\ Truthy(v.imageAnalysis.state)

\* the validation of processClipboardText
ClipboardValid(v) ==
    /\ v.type # "null"
    /\ Truthy(v.version)
    /\ Truthy(v.imageAnalysis.state)
    /\ \/ Truthy(v.imageAnalysis.colors)
       \/ Truthy(v.imageAnalysis.typography)
       \/ Truthy(v.imageAnalysis.components)

\* `if (x.imageAnalysis.originalImage) setImagePreview(...)`
PreviewAfter(v, preview) ==
    IF Truthy(v.imageAnalysis.originalImage) THEN JsonPreview(v) ELSE preview

Op(kind, file) == [kind |-> kind, file |-> file]
PendingOps == BagCardinality(pending)
Start(op) == pending' = pending (+) SetToBag({op})
Finish(op) == pending' = pending (-) SetToBag({op})

\* mutant of ShowManualPasteOption: the container is built but never appended
ShowManualPasteOptionNotAppended == UNCHANGED manualPasteShown

\* showManualPasteOption: the container is appended to .tab-content
ShowManualPasteOption == manualPasteShown' = TRUE

\* mutant of ProcessClipboardText: the catch block also drops the imported data
ProcessClipboardTextResets(text) ==
    IF IsBlank(text)
    THEN /\ error' = "No data found in clipboard"
         /\ UNCHANGED <<statusMessage, importedJsonData, importMethod, imagePreview>>
    ELSE IF ~Parses(text)
    THEN /\ error' = "No valid component data found in clipboard"
         /\ importedJsonData' = Unset
         /\ UNCHANGED <<statusMessage, importMethod, imagePreview>>
    ELSE IF ClipboardValid(text.value)
    THEN /\ statusMessage' = "Component data detected! Click \"Create Components\" to proceed."
         /\ importedJsonData' = text.value
         /\ importMethod' = "json"
         /\ error' = ""
         /\ imagePreview' = PreviewAfter(text.value, imagePreview)
    ELSE /\ error' = "The clipboard data is not in the expected format"
         /\ UNCHANGED <<statusMessage, importedJsonData, importMethod, imagePreview>>

\* processClipboardText(text)
ProcessClipboardText(text) ==
    IF IsBlank(text)
    THEN /\ error' = "No data found in clipboard"
         /\ UNCHANGED <<statusMessage, importedJsonData, importMethod, imagePreview>>
    ELSE IF ~Parses(text)
    THEN /\ error' = "No valid component data found in clipboard"
         /\ UNCHANGED <<statusMessage, importedJsonData, importMethod, imagePreview>>
    ELSE IF ClipboardValid(text.value)
    THEN /\ statusMessage' = "Component data detected! Click \"Create Components\" to proceed."
         /\ importedJsonData' = text.value
         /\ importMethod' = "json"
         /\ error' = ""
         /\ imagePreview' = PreviewAfter(text.value, imagePreview)
    ELSE /\ error' = "The clipboard data is not in the expected format"
         /\ UNCHANGED <<statusMessage, importedJsonData, importMethod, imagePreview>>

\* the mount effect: checkClipboardForComponentData up to its await
CheckClipboardStart ==
    /\ statusMessage' = "Checking clipboard for component data..."
    /\ IF clipboardApi
       THEN /\ Start(Op("check", ""))
            /\ UNCHANGED <<error, manualPasteShown>>
       ELSE /\ error' = "Clipboard API not available in this context. Please try pasting manually."
            /\ ShowManualPasteOption
            /\ UNCHANGED pending

Mount ==
    /\ ~mounted
    /\ mounted' = TRUE
    /\ CheckClipboardStart
    /\ UNCHANGED <<imageFile, imagePreview, isProcessing, importedJsonData, importMethod,
                   clipboardApi>>
    /\ UNCHANGED <<ctlVars, sessVars>>

\* the accent 'Paste from Clipboard' button of the button row
CheckClipboardButton ==
    /\ mounted
    /\ importMethod = "json" /\ importedJsonData = Unset /\ ~isProcessing
    /\ PendingOps < MaxPending
    /\ CheckClipboardStart
    /\ UNCHANGED <<imageFile, imagePreview, isProcessing, importedJsonData, importMethod,
                   mounted, clipboardApi>>
    /\ UNCHANGED <<ctlVars, sessVars>>

\* checkClipboardForComponentData after readText resolved
CheckClipboardResolvesWith(text) ==
    /\ BagIn(Op("check", ""), pending)
    /\ Finish(Op("check", ""))
    /\ ProcessClipboardText(text)
    /\ UNCHANGED <<imageFile, isProcessing, mounted, clipboardApi, manualPasteShown>>
    /\ UNCHANGED <<ctlVars, sessVars>>

CheckClipboardResolves == \E text \in Texts : CheckClipboardResolvesWith(text)

\* checkClipboardForComponentData after readText rejected
CheckClipboardRejects ==
    /\ BagIn(Op("check", ""), pending)
    /\ Finish(Op("check", ""))
    /\ error' = "Could not access clipboard. Please try pasting manually into a text field."
    /\ ShowManualPasteOption
    /\ UNCHANGED <<imageFile, imagePreview, isProcessing, statusMessage, importedJsonData,
                   importMethod, mounted, clipboardApi>>
    /\ UNCHANGED <<ctlVars, sessVars>>

\* handlePasteFromClipboard up to its await
HandlePasteFromClipboard ==
    /\ mounted
    /\ PendingOps < MaxPending
    /\ statusMessage' = "Reading from clipboard..."
    /\ IF clipboardApi
       THEN /\ Start(Op("paste", ""))
            /\ UNCHANGED <<error, manualPasteShown>>
       ELSE /\ error' = "Clipboard API not available. Please try manual paste."
            /\ ShowManualPasteOption
            /\ UNCHANGED pending
    /\ UNCHANGED <<imageFile, imagePreview, isProcessing, importedJsonData, importMethod,
                   mounted, clipboardApi>>
    /\ UNCHANGED <<ctlVars, sessVars>>

\* handlePasteFromClipboard after readText resolved
PasteResolvesWith(text) ==
    /\ BagIn(Op("paste", ""), pending)
    /\ Finish(Op("paste", ""))
    /\ ProcessClipboardText(text)
    /\ UNCHANGED <<imageFile, isProcessing, mounted, clipboardApi, manualPasteShown>>
    /\ UNCHANGED <<ctlVars, sessVars>>

PasteResolves == \E text \in Texts : PasteResolvesWith(text)

\* handlePasteFromClipboard after readText rejected
PasteRejects ==
    /\ BagIn(Op("paste", ""), pending)
    /\ Finish(Op("paste", ""))
    /\ error' = "Error accessing clipboard: NotAllowedError. Try manual paste."
    /\ ShowManualPasteOption
    /\ UNCHANGED <<imageFile, imagePreview, isProcessing, statusMessage, importedJsonData,
                   importMethod, mounted, clipboardApi>>
    /\ UNCHANGED <<ctlVars, sessVars>>

\* the 'Process Pasted Data' button under the panel's own textarea
ManualPasteAreaWith(text) ==
    /\ mounted
    /\ IF text.kind # "empty"
       THEN ProcessClipboardText(text)
       ELSE /\ error' = "Please paste data into the textarea first"
            /\ UNCHANGED <<statusMessage, importedJsonData, importMethod, imagePreview>>
    /\ UNCHANGED <<imageFile, isProcessing, mounted, clipboardApi, manualPasteShown, pending>>
    /\ UNCHANGED <<ctlVars, sessVars>>

ManualPasteArea == \E text \in Texts : ManualPasteAreaWith(text)

\* the button of the container showManualPasteOption adds
ManualPasteContainerWith(text) ==
    /\ mounted
    /\ manualPasteShown
    /\ ProcessClipboardText(text)
    /\ UNCHANGED <<imageFile, isProcessing, mounted, clipboardApi, manualPasteShown, pending>>
    /\ UNCHANGED <<ctlVars, sessVars>>

ManualPasteContainer == \E text \in Texts : ManualPasteContainerWith(text)

\* handleFileChange with a file whose name ends in .json: handleJsonFileImport starts
\* a FileReader
SelectJsonFile ==
    /\ mounted
    /\ PendingOps < MaxPending
    /\ Start(Op("json", ""))
    /\ UNCHANGED <<imageFile, imagePreview, isProcessing, error, statusMessage,
                   importedJsonData, importMethod, mounted, clipboardApi, manualPasteShown>>
    /\ UNCHANGED <<ctlVars, sessVars>>

\* reader.onload of handleJsonFileImport with the text of the file
JsonFileLoaded(text) ==
    IF text.kind = "empty"
    THEN UNCHANGED <<error, statusMessage, importedJsonData, importMethod, imagePreview>>
    ELSE IF ~Parses(text)
    THEN /\ error' = "Error parsing JSON: Unexpected token"
         /\ UNCHANGED <<statusMessage, importedJsonData, importMethod, imagePreview>>
    ELSE IF text.value.type = "null"
    THEN /\ error' = "Error parsing JSON: Cannot read properties of null"
         /\ UNCHANGED <<statusMessage, importedJsonData, importMethod, imagePreview>>
    ELSE IF FileValid(text.value)
    THEN /\ importedJsonData' = text.value
         /\ importMethod' = "json"
         /\ statusMessage' = "JSON data loaded successfully. Click \"Create Components\" to proceed."
         /\ imagePreview' = PreviewAfter(text.value, imagePreview)
         /\ UNCHANGED error
    ELSE /\ error' = "Invalid JSON format. Missing required data structure."
         /\ UNCHANGED <<statusMessage, importedJsonData, importMethod, imagePreview>>

JsonReaderLoadWith(text) ==
    /\ BagIn(Op("json", ""), pending)
    /\ Finish(Op("json", ""))
    /\ JsonFileLoaded(text)
    /\ UNCHANGED <<imageFile, isProcessing, mounted, clipboardApi, manualPasteShown>>
    /\ UNCHANGED <<ctlVars, sessVars>>

JsonReaderLoad == \E text \in Texts : JsonReaderLoadWith(text)

\* reader.onerror of handleJsonFileImport
JsonReaderError ==
    /\ BagIn(Op("json", ""), pending)
    /\ Finish(Op("json", ""))
    /\ error' = "Error reading the JSON file."
    /\ UNCHANGED <<imageFile, imagePreview, isProcessing, statusMessage, importedJsonData,
                   importMethod, mounted, clipboardApi, manualPasteShown>>
    /\ UNCHANGED <<ctlVars, sessVars>>

\* mutant of SelectImageFile: the imported JSON data is kept
SelectImageFileKeepsPayload ==
    /\ mounted
    /\ PendingOps < MaxPending
    /\ \E f \in ImageFiles :
         /\ imageFile' = f
         /\ Start(Op("image", f))
    /\ importMethod' = "image"
    /\ error' = NoError
    /\ UNCHANGED <<imagePreview, isProcessing, statusMessage, importedJsonData, mounted,
                   clipboardApi, manualPasteShown>>
    /\ UNCHANGED <<ctlVars, sessVars>>

\* handleFileChange with any other file: the image branch
SelectImageFile ==
    /\ mounted
    /\ PendingOps < MaxPending
    /\ \E f \in ImageFiles :
         /\ imageFile' = f
         /\ Start(Op("image", f))
    /\ importMethod' = "image"
    /\ error' = NoError
    /\ importedJsonData' = Unset
    /\ UNCHANGED <<imagePreview, isProcessing, statusMessage, mounted, clipboardApi,
                   manualPasteShown>>
    /\ UNCHANGED <<ctlVars, sessVars>>

\* reader.onload of the image branch
ImageReaderLoad ==
    /\ \E f \in ImageFiles :
         /\ BagIn(Op("image", f), pending)
         /\ Finish(Op("image", f))
         /\ imagePreview' = FilePreview(f)
    /\ UNCHANGED <<imageFile, isProcessing, error, statusMessage, importedJsonData,
                   importMethod, mounted, clipboardApi, manualPasteShown>>
    /\ UNCHANGED <<ctlVars, sessVars>>

\* the 'Upload Image' and 'Import JSON' option buttons
SelectImportMethod ==
    /\ mounted
    /\ \E m \in {"image", "json"} : importMethod' = m
    /\ UNCHANGED <<imageFile, imagePreview, isProcessing, error, statusMessage,
                   importedJsonData, mounted, clipboardApi, manualPasteShown, pending>>
    /\ UNCHANGED <<ctlVars, sessVars>>

NextPanel ==
    \/ Mount
    \/ CheckClipboardButton \/ CheckClipboardResolves \/ CheckClipboardRejects
    \/ HandlePasteFromClipboard \/ PasteResolves \/ PasteRejects
    \/ ManualPasteArea \/ ManualPasteContainer
    \/ SelectJsonFile \/ JsonReaderLoad \/ JsonReaderError
    \/ SelectImageFile \/ ImageReaderLoad
    \/ SelectImportMethod

\* `let analysisResult;` before it is assigned
NoResult == [colors |-> <<>>, typography |-> <<>>, components |-> <<>>]

\* the panel after construction: the useState defaults
InitPanel(apiChoices) ==
    /\ imageFile = NoFile
    /\ imagePreview = NoPreview
    /\ isProcessing = FALSE
    /\ error = NoError
    /\ statusMessage = ""
    /\ importedJsonData = Unset
    /\ importMethod = "image"
    /\ mounted = FALSE
    /\ clipboardApi \in apiChoices
    /\ manualPasteShown = FALSE
    /\ pending = EmptyBag
    /\ run = "idle"
    /\ analysisResult = NoResult
    /\ runs = 0
    /\ uiRead = 0
    /\ warned = 0

\* ------------------------------------------------------------ the analysis run
\* the payloads of the IMAGE_ANALYSIS_COMPLETE messages a run can send
SwatchA == [name |-> "a", color |-> "rgb1", opacity |-> "undefined"]
TextRoboto == [text |-> "Hello", fontName |-> FontNameOf("Roboto", "Bold"), fontSize |-> "16"]
ButtonA == [name |-> "Btn", width |-> 10, height |-> 20, fills |-> "undefined"]

\* what visionService.analyzeImage resolves with
VisionResults ==
    {NoResult,
     [colors |-> <<SwatchA>>, typography |-> <<TextRoboto>>, components |-> <<ButtonA>>]}

\* the arrays of an imported payload's imageAnalysis
JsonArrays ==
    {[colors |-> <<SwatchA>>, typography |-> <<TextRoboto>>, components |-> <<ButtonA>>],
     [colors |-> <<>>, typography |-> <<>>, components |-> <<ButtonA, ButtonA>>]}

\* the mapping of the JSON import flow
RemapColor(c) == [name |-> c.name, color |-> c.color, opacity |-> OrElse(c.opacity, "1")]
RemapText(t) == [text |-> t.text, fontName |-> NoFontName, fontSize |-> t.fontSize]
RemapComponent(c) ==
    [name |-> c.name, width |-> c.width, height |-> c.height, fills |-> "undefined"]
Remap(raw) ==
    [colors |-> [k \in 1..Len(raw.colors) |-> RemapColor(raw.colors[k])],
     typography |-> [k \in 1..Len(raw.typography) |-> RemapText(raw.typography[k])],
     components |-> [k \in 1..Len(raw.components) |-> RemapComponent(raw.components[k])]]

\* jsonData.colors.map, jsonData.typography.map and jsonData.components.map all exist
CanRemap(v) ==
    /\ v.imageAnalysis.colors = "array"
    /\ v.imageAnalysis.typography = "array"
    /\ v.imageAnalysis.components = "array"

\* what an awaited call of the primary analysis rejects with: fileToBase64 rejects
\* with the FileReader's ProgressEvent, which has no message property; the vision
\* service throws an Error
ReaderFailure == [kind |-> "ProgressEvent", message |-> "undefined", cause |-> "NotReadableError"]
VisionFailure == [kind |-> "Error", message |-> "Vision API error: 403", cause |-> "Vision API error: 403"]
MapFailure ==
    [kind |-> "TypeError", message |-> "Cannot read properties of undefined (reading 'map')",
     cause |-> "Cannot read properties of undefined (reading 'map')"]

\* `Error analyzing image: ${err.message}`
AnalyzingError(message) ==
    CASE message = "undefined" -> "Error analyzing image: undefined"
      [] message = "NotReadableError" -> "Error analyzing image: NotReadableError"
      [] message = "Vision API error: 403" -> "Error analyzing image: Vision API error: 403"
      [] OTHER -> "Error analyzing image: Cannot read properties of undefined (reading 'map')"

\* the catch and finally blocks of analyzeImage
AnalyzeCatch(err) ==
    /\ error' = AnalyzingError(err.message)
    /\ isProcessing' = FALSE
    /\ run' = "idle"

\* mutant of AnalyzeDisabled: the button stays enabled while a run is in flight
AnalyzeDisabledForLackOfInput ==
    \/ importMethod = "image" /\ imageFile = NoFile
    \/ importMethod = "json" /\ importedJsonData = Unset

\* the `disabled` attribute of the primary button
AnalyzeDisabled ==
    \/ importMethod = "image" /\ imageFile = NoFile
    \/ importMethod = "json" /\ importedJsonData = Unset
    \/ isProcessing

Message(type, data) == [type |-> type, data |-> data]

\* emit(name, data): the message is posted to the controller
Emit(type, data) == inbox' = Append(inbox, Message(type, data))

\* a call of analyzeImage, up to its first await or its return
AnalyzeImageCall ==
    /\ mounted
    /\ closed = 0
    /\ runs < MaxRuns
    /\ runs' = runs + 1
    /\ IF importMethod = "image" /\ imageFile = NoFile
       THEN /\ error' = "Please select an image first."
            /\ UNCHANGED <<isProcessing, run, analysisResult>>
       ELSE IF importMethod = "json" /\ importedJsonData = Unset
       THEN /\ error' = "Please import a JSON file first."
            /\ UNCHANGED <<isProcessing, run, analysisResult>>
       ELSE IF importMethod = "image"
       THEN /\ isProcessing' = TRUE
            /\ error' = NoError
            /\ run' = "toBase64"
            /\ UNCHANGED analysisResult
       ELSE IF CanRemap(importedJsonData)
       THEN /\ isProcessing' = TRUE
            /\ error' = NoError
            /\ \E raw \in JsonArrays : analysisResult' = Remap(raw)
            /\ run' = "enrich"
       ELSE /\ AnalyzeCatch(MapFailure)
            /\ UNCHANGED analysisResult
    /\ UNCHANGED <<imageFile, imagePreview, statusMessage, importedJsonData, importMethod,
                   mounted, clipboardApi, manualPasteShown, pending, uiRead, warned>>
    /\ UNCHANGED <<inbox, onceHandlers, handled, externals, coreCalls, corePending,
                   notifications>>
    /\ UNCHANGED ctlVars

\* a click on the primary button, which is inert while disabled
AnalyzeImage == ~AnalyzeDisabled /\ AnalyzeImageCall

\* the current import method has no input
NoInput ==
    \/ importMethod = "image" /\ imageFile = NoFile
    \/ importMethod = "json" /\ importedJsonData = Unset

\* analyzeImage called while the current import method has no input: the button is
\* disabled then, so the call does not come from a click
AnalyzeWithoutInput == NoInput /\ AnalyzeImageCall

\* what the steps of a run leave alone
RunFrame ==
    /\ UNCHANGED <<imageFile, imagePreview, importedJsonData, importMethod, mounted,
                   clipboardApi, manualPasteShown, pending, runs, uiRead>>
    /\ UNCHANGED <<onceHandlers, handled, externals, coreCalls, corePending, notifications>>
    /\ UNCHANGED ctlVars

\* fileToBase64 resolves: visionService.analyzeImage is called
Base64Resolves ==
    /\ closed = 0
    /\ run = "toBase64"
    /\ run' = "vision"
    /\ UNCHANGED <<isProcessing, error, statusMessage, analysisResult, inbox, warned>>
    /\ RunFrame

\* fileToBase64 rejects
Base64Rejects ==
    /\ closed = 0
    /\ run = "toBase64"
    /\ AnalyzeCatch(ReaderFailure)
    /\ UNCHANGED <<statusMessage, analysisResult, inbox, warned>>
    /\ RunFrame

\* visionService.analyzeImage resolves: figmaService.findSimilarComponents is called
VisionResolves ==
    /\ closed = 0
    /\ run = "vision"
    /\ \E r \in VisionResults : analysisResult' = r
    /\ run' = "enrich"
    /\ UNCHANGED <<isProcessing, error, statusMessage, inbox, warned>>
    /\ RunFrame

\* visionService.analyzeImage rejects
VisionRejects ==
    /\ closed = 0
    /\ run = "vision"
    /\ AnalyzeCatch(VisionFailure)
    /\ UNCHANGED <<statusMessage, analysisResult, inbox, warned>>
    /\ RunFrame

\* mutant of EmitResult: the failure of the enrichment is passed on to the outer catch
EmitResultUnlessFailed(failed) ==
    IF failed
    THEN /\ AnalyzeCatch(VisionFailure)
         /\ warned' = warned + 1
         /\ UNCHANGED <<statusMessage, analysisResult, inbox>>
    ELSE /\ Emit("IMAGE_ANALYSIS_COMPLETE", analysisResult)
         /\ statusMessage' = "Image analyzed successfully!"
         /\ isProcessing' = FALSE
         /\ run' = "idle"
         /\ UNCHANGED <<error, analysisResult, warned>>

\* the end of the run, after findSimilarComponents settled (failed: it rejected, which
\* the inner catch only logs): the result is emitted and the finally block runs
EmitResult(failed) ==
    /\ warned' = IF failed THEN warned + 1 ELSE warned
    /\ Emit("IMAGE_ANALYSIS_COMPLETE", analysisResult)
    /\ statusMessage' = "Image analyzed successfully!"
    /\ isProcessing' = FALSE
    /\ run' = "idle"
    /\ UNCHANGED <<error, analysisResult>>

EnrichResolves ==
    /\ closed = 0
    /\ run = "enrich"
    /\ EmitResult(FALSE)
    /\ RunFrame

EnrichRejects ==
    /\ closed = 0
    /\ run = "enrich"
    /\ EmitResult(TRUE)
    /\ RunFrame

\* the Cancel button: handleClose
HandleClose ==
    /\ mounted
    /\ closed = 0
    /\ ~isProcessing
    /\ Len(inbox) < MaxInbox
    /\ Emit("CLOSE_PLUGIN", NoResult)
    /\ UNCHANGED uiVars
    /\ UNCHANGED <<run, analysisResult, runs, uiRead, warned, onceHandlers, handled, externals,
                   coreCalls, corePending, notifications>>
    /\ UNCHANGED ctlVars

\* ------------------------------------------------- the controller's message loop
\* the construction is suspended at an await (927, 985, 1018, 1051, 1058, 1086, 1101,
\* 1114), so that the controller can run another handler
Awaiting ==
    \/ pc = "colors" /\ HasItems(imageData.colors)
    \/ pc = "colorItem" /\ idx <= Len(imageData.colors)
    \/ pc = "typography" /\ HasItems(imageData.typography)
    \/ pc = "typoGroup" /\ idx <= Len(textGroups)
    \/ pc = "components" /\ HasItems(imageData.components)
    \/ pc = "componentSet"
    \/ pc = "componentItem" /\ idx <= Len(imageData.components)

\* mutant of CanHandle: messages are still delivered after figma.closePlugin()
CanHandleAfterClose == pc \in {"idle", "done"} \/ Awaiting

\* the controller is between tasks and the plugin is running
CanHandle == closed = 0 /\ (pc \in {"idle", "done"} \/ Awaiting)

\* mutant of HandleAnalysisComplete: the handler is registered with `on`, not `once`
HandleAnalysisCompleteEveryTime ==
    /\ CanHandle
    /\ inbox # <<>>
    /\ Head(inbox).type = "IMAGE_ANALYSIS_COMPLETE"
    /\ inbox' = Tail(inbox)
    /\ handled' = handled + 1
    /\ imageData' = Head(inbox).data
    /\ pc' = "colors"
    /\ parentFrame' = <<>>
    /\ UNCHANGED <<hostFonts, styles0, styles, idx, section, colorRow, textGroups, hasVariants,
                   builderCalls, page, selection, posted, thrown, timers, closed>>
    /\ UNCHANGED <<onceHandlers, run, analysisResult, runs, uiRead, warned, externals,
                   coreCalls, corePending, notifications>>
    /\ UNCHANGED uiVars

\* an IMAGE_ANALYSIS_COMPLETE message reaches the controller: the `once` handler, if
\* still registered, is removed and starts processImageAnalysisResults on the payload
HandleAnalysisComplete ==
    /\ CanHandle
    /\ inbox # <<>>
    /\ Head(inbox).type = "IMAGE_ANALYSIS_COMPLETE"
    /\ inbox' = Tail(inbox)
    /\ handled' = handled + 1
    /\ IF "IMAGE_ANALYSIS_COMPLETE" \in onceHandlers
       THEN /\ onceHandlers' = onceHandlers \ {"IMAGE_ANALYSIS_COMPLETE"}
            /\ imageData' = Head(inbox).data
            /\ pc' = "colors"
            /\ parentFrame' = <<>>
       ELSE UNCHANGED <<onceHandlers, imageData, pc, parentFrame>>
    /\ UNCHANGED <<hostFonts, styles0, styles, idx, section, colorRow, textGroups, hasVariants,
                   builderCalls, page, selection, posted, thrown, timers, closed>>
    /\ UNCHANGED <<run, analysisResult, runs, uiRead, warned, externals, coreCalls,
                   corePending, notifications>>
    /\ UNCHANGED uiVars

\* a CLOSE_PLUGIN message reaches the controller: its `once` handler calls
\* figma.closePlugin() at once
HandleClosePlugin ==
    /\ CanHandle
    /\ inbox # <<>>
    /\ Head(inbox).type = "CLOSE_PLUGIN"
    /\ inbox' = Tail(inbox)
    /\ IF "CLOSE_PLUGIN" \in onceHandlers
       THEN /\ onceHandlers' = onceHandlers \ {"CLOSE_PLUGIN"}
            /\ closed' = closed + 1
       ELSE UNCHANGED <<onceHandlers, closed>>
    /\ UNCHANGED <<imageData, hostFonts, styles0, styles, pc, idx, parentFrame, section,
                   colorRow, textGroups, hasVariants, builderCalls, page, selection, posted,
                   thrown, timers>>
    /\ UNCHANGED <<run, analysisResult, runs, uiRead, warned, handled, externals,
                   coreCalls, corePending, notifications>>
    /\ UNCHANGED uiVars

\* a step of the construction under way; figma.closePlugin() cancels what is pending
ConstructionStep ==
    /\ closed = 0
    /\ \/ BeginColors \/ ColorItem \/ ColorsDone
       \/ BeginTypography \/ TypographyGroup \/ TypographyDone
       \/ BeginComponents \/ ComponentSetStep \/ ComponentItem \/ ComponentsLoopDone
       \/ ComponentsDone
       \/ FinishConstruction

NextSession ==
    \/ AnalyzeImage
    \/ Base64Resolves \/ Base64Rejects
    \/ VisionResolves \/ VisionRejects
    \/ EnrichResolves \/ EnrichRejects
    \/ HandleClose
    \/ HandleAnalysisComplete
    \/ HandleClosePlugin
    \/ ConstructionStep
    \/ TeardownTimer

\* ------------------------------------------------- the external message channel
\* a payload with no version field
NoVersionPayload == [type |-> "object", version |-> "absent", imageAnalysis |-> FullAnalysis]

\* event.data.componentData and event.data.data: absent, null, or an object whose
\* simplified field is absent, true or the string 'yes'
NoPayload == [given |-> "absent", simplified |-> "absent", message |-> "undefined", body |-> JsonNull]
NullPayload == [given |-> "null", simplified |-> "absent", message |-> "undefined", body |-> JsonNull]
ExternalPayloads ==
    {[given |-> "object", simplified |-> "true", message |-> "undefined", body |-> NoVersionPayload],
     [given |-> "object", simplified |-> "yes", message |-> "cut", body |-> NoVersionPayload],
     [given |-> "object", simplified |-> "absent", message |-> "undefined", body |-> FullPayload]}
PayloadSlots == {NoPayload, NullPayload} \cup ExternalPayloads

\* the message events the controller's window can receive
NullEvent == [data |-> "null", source |-> "absent", componentData |-> NoPayload, payload |-> NoPayload]
ExternalEvents ==
    {NullEvent} \cup
    [data : {"object"}, source : {"sticker-chrome-extension", "sticker-system", "other"},
     componentData : PayloadSlots, payload : PayloadSlots]

\* mutant of RecognizedSources: the source tag is not checked
AnySource == {"sticker-chrome-extension", "sticker-system", "other"}

RecognizedSources == {"sticker-chrome-extension", "sticker-system"}

\* `event.data.componentData || event.data.data`
ComponentDataOf(ev) ==
    IF ev.componentData.given = "object" THEN ev.componentData ELSE ev.payload

\* mutant of IsSimplified: the flag is not looked at
IsSimplifiedNever(componentData) == FALSE

\* `componentData.simplified === true`
IsSimplified(componentData) == componentData.simplified = "true"

\* `import UnifiedCore from './unified-core'`: the module object
UnifiedCoreLoaded == TRUE

ExternalDataReceived(data) ==
    [type |-> "EXTERNAL_DATA_RECEIVED", data |-> data, simplified |-> FALSE,
     message |-> "undefined"]

\* the message posted for simplified data
SimplifiedDataReceived(data) ==
    [type |-> "EXTERNAL_DATA_RECEIVED", data |-> data, simplified |-> TRUE,
     message |-> OrElse(data.message, "Data was simplified due to size constraints")]

SimplifiedNotice ==
    "Component data was simplified due to size constraints. Some details may be missing."

\* the message listener of setupExternalMessaging on one event
ExternalMessageWith(ev) ==
    /\ closed = 0
    /\ Len(externals) < MaxExternal
    /\ externals' = Append(externals, ev)
    /\ IF /\ ev.data = "object"
          /\ ev.source \in RecognizedSources
          /\ ComponentDataOf(ev).given = "object"
       THEN LET componentData == ComponentDataOf(ev)
            IN  IF IsSimplified(componentData)
                THEN /\ posted' = Append(posted, SimplifiedDataReceived(componentData))
                     /\ notifications' = Append(notifications, SimplifiedNotice)
                     /\ UNCHANGED <<coreCalls, corePending>>
                ELSE IF UnifiedCoreLoaded
                THEN /\ coreCalls' = Append(coreCalls, componentData)
                     /\ corePending' = corePending (+) SetToBag({componentData})
                     /\ UNCHANGED <<posted, notifications>>
                ELSE /\ posted' = Append(posted, ExternalDataReceived(componentData))
                     /\ UNCHANGED <<coreCalls, corePending, notifications>>
       ELSE UNCHANGED <<posted, notifications, coreCalls, corePending>>
    /\ UNCHANGED <<imageData, hostFonts, styles0, styles, pc, idx, parentFrame, section,
                   colorRow, textGroups, hasVariants, builderCalls, page, selection, thrown,
                   timers, closed>>
    /\ UNCHANGED <<run, analysisResult, runs, uiRead, warned, inbox, onceHandlers, handled>>
    /\ UNCHANGED uiVars

ExternalMessage == \E ev \in ExternalEvents : ExternalMessageWith(ev)

\* what UnifiedCore.processComponentData resolves with: the data, or the data with
\* its content normalised
ProcessedData(componentData) ==
    {componentData, [componentData EXCEPT !.body = FullPayload]}

CoreFrame ==
    /\ UNCHANGED <<imageData, hostFonts, styles0, styles, pc, idx, parentFrame, section,
                   colorRow, textGroups, hasVariants, builderCalls, page, selection, thrown,
                   timers, closed>>
    /\ UNCHANGED <<run, analysisResult, runs, uiRead, warned, inbox, onceHandlers, handled,
                   externals, coreCalls, notifications>>
    /\ UNCHANGED uiVars

\* processComponentData resolves: the processed data is passed to the panel
CoreResolves ==
    /\ closed = 0
    /\ \E componentData \in BagToSet(corePending) :
         /\ corePending' = corePending (-) SetToBag({componentData})
         /\ \E processedData \in ProcessedData(componentData) :
              posted' = Append(posted, ExternalDataReceived(processedData))
    /\ CoreFrame

\* mutant of CoreRejects: the promise chain has no catch, a rejection posts nothing
CoreRejectsUncaught ==
    /\ closed = 0
    /\ \E componentData \in BagToSet(corePending) :
         corePending' = corePending (-) SetToBag({componentData})
    /\ UNCHANGED posted
    /\ CoreFrame

\* processComponentData rejects: the data is passed as it came
CoreRejects ==
    /\ closed = 0
    /\ \E componentData \in BagToSet(corePending) :
         /\ corePending' = corePending (-) SetToBag({componentData})
         /\ posted' = Append(posted, ExternalDataReceived(componentData))
    /\ CoreFrame

\* handleExternalMessage of the panel on the next message the controller posted
HandleExternalMessage ==
    /\ mounted
    /\ closed = 0
    /\ uiRead < Len(posted)
    /\ uiRead' = uiRead + 1
    /\ LET pluginMessage == posted[uiRead + 1]
       IN  IF pluginMessage.type = "EXTERNAL_DATA_RECEIVED"
           THEN /\ importedJsonData' = pluginMessage.data.body
                /\ importMethod' = "json"
                /\ statusMessage' =
                     "Data received from Chrome extension. Click \"Create Components\" to proceed."
                /\ imagePreview' = PreviewAfter(pluginMessage.data.body, imagePreview)
           ELSE UNCHANGED <<importedJsonData, importMethod, statusMessage, imagePreview>>
    /\ UNCHANGED <<imageFile, isProcessing, error, mounted, clipboardApi, manualPasteShown,
                   pending>>
    /\ UNCHANGED <<run, analysisResult, runs, warned, inbox, onceHandlers, handled, externals,
                   coreCalls, corePending, notifications>>
    /\ UNCHANGED ctlVars

\* the data of a JSON_DATA_LOADED event of the unified system: jsonData null or an object
UnifiedJsonData == {JsonNull, FullPayload, NoVersionPayload}

\* the JSON_DATA_LOADED listener of registerUnifiedListeners
JsonDataLoaded ==
    /\ mounted
    /\ closed = 0
    /\ \E jsonData \in UnifiedJsonData :
         IF jsonData.type # "null"
         THEN /\ importedJsonData' = jsonData
              /\ importMethod' = "json"
              /\ statusMessage' =
                   "JSON data loaded from unified system. Click \"Create Components\" to proceed."
         ELSE UNCHANGED <<importedJsonData, importMethod, statusMessage>>
    /\ UNCHANGED <<imageFile, imagePreview, isProcessing, error, mounted, clipboardApi,
                   manualPasteShown, pending>>
    /\ UNCHANGED sessVars
    /\ UNCHANGED ctlVars

NextExternal ==
    \/ Mount
    \/ ExternalMessage
    \/ CoreResolves \/ CoreRejects
    \/ HandleExternalMessage
    \/ JsonDataLoaded

\* ------------------------------------------------------------ specifications
InterOnly == {<<"Inter", "Regular">>, <<"Inter", "Bold">>}
FontChoices == {AllHostFonts, InterOnly}

\* small universes for the sections a specification is not about
FewColors == {[name |-> "a", color |-> "rgb1", opacity |-> "undefined"]}
FewTypography ==
    {[text |-> "Hello", fontName |-> NoFontName, fontSize |-> "undefined"],
     [text |-> "", fontName |-> FontNameOf("Roboto", "Bold"), fontSize |-> "12"]}
FewComponents ==
    {[name |-> n, width |-> 10, height |-> 20, fills |-> "undefined"] : n \in {"Btn", "Card"}}

\* the whole construction, every section with a small universe
InitBuild ==
    /\ InitController(SeqsUpTo(FewColors, MaxColors),
                      SeqsUpTo(FewTypography, MaxTypography),
                      SeqsUpTo(FewComponents, MaxComponents), FontChoices,
                      {<<>>, <<OldPaintStyle>>})
    /\ InitPanel({TRUE})

Spec == InitBuild /\ [][NextBuild]_vars

\* the palette with the full colour universe, the other sections small
InitPalette ==
    /\ InitController(SeqsUpTo(ColorData, MaxColors),
                      {<<>>, <<[text |-> "", fontName |-> FontNameOf("Roboto", "Bold"),
                                fontSize |-> "12"]>>},
                      SeqsUpTo({[name |-> "Btn", width |-> 10, height |-> 20,
                                 fills |-> "undefined"]}, 2),
                      FontChoices, {<<>>, <<OldPaintStyle>>})
    /\ InitPanel({TRUE})

SpecPalette == InitPalette /\ [][NextBuild]_vars

\* the typography section with the full typography universe, the other sections small
InitTypography ==
    /\ InitController({<<>>, <<[name |-> "a", color |-> "rgb1", opacity |-> "undefined"]>>},
                      SeqsUpTo(TypographyData, MaxTypography),
                      {<<[name |-> "Btn", width |-> 10, height |-> 20, fills |-> "undefined"]>>,
                       <<[name |-> "Btn", width |-> 10, height |-> 20, fills |-> "undefined"],
                         [name |-> "Btn", width |-> 10, height |-> 20, fills |-> "fills"]>>},
                      FontChoices, {<<>>, <<OldTextStyle>>})
    /\ InitPanel({TRUE})

SpecTypography == InitTypography /\ [][NextBuild]_vars

\* the components section with the full component universe, the other sections small
InitComponents ==
    /\ InitController({<<>>, <<[name |-> "a", color |-> "rgb1", opacity |-> "undefined"]>>},
                      {<<>>, <<[text |-> "Hello", fontName |-> NoFontName,
                                fontSize |-> "undefined"]>>},
                      SeqsUpTo(ComponentData, MaxComponents), FontChoices, {<<>>})
    /\ InitPanel({TRUE})

SpecComponents == InitComponents /\ [][NextBuild]_vars

\* the panel alone: the controller has received no analysis result
InitIdleController ==
    /\ InitController({<<>>}, {<<>>}, {<<>>}, {AllHostFonts}, {<<>>})
    /\ InitPanel(BOOLEAN)

SpecPanel == InitIdleController /\ [][NextPanel]_vars

\* the panel once the user has given it an input: an image was chosen after the mount
\* check found nothing, or the mount check found a payload in the clipboard
ImageChosen ==
    /\ imageFile = "a.png"
    /\ imagePreview = FilePreview("a.png")
    /\ error = NoError
    /\ statusMessage = "Checking clipboard for component data..."
    /\ importedJsonData = Unset
    /\ importMethod = "image"

PayloadImported ==
    /\ imageFile = NoFile
    /\ imagePreview = NoPreview
    /\ error = ""
    /\ statusMessage = "Component data detected! Click \"Create Components\" to proceed."
    /\ importedJsonData \in {FullPayload, TypographyOnlyPayload}
    /\ importMethod = "json"

InitReadyPanel ==
    /\ ImageChosen \/ PayloadImported
    /\ isProcessing = FALSE
    /\ mounted = TRUE
    /\ clipboardApi = TRUE
    /\ manualPasteShown = FALSE
    /\ pending = EmptyBag
    /\ run = "idle"
    /\ analysisResult = NoResult
    /\ runs = 0
    /\ uiRead = 0
    /\ warned = 0

\* a session: the panel analyses and cancels, the controller constructs and closes
InitSession ==
    /\ InitController({<<>>}, {<<>>}, {<<>>}, FontChoices, {<<>>})
    /\ InitReadyPanel

SpecSession == InitSession /\ [][NextSession]_vars

\* the panel after its mount check found an empty clipboard: no file, no payload,
\* either import method
NothingChosen ==
    /\ imageFile = NoFile
    /\ imagePreview = NoPreview
    /\ error = "No data found in clipboard"
    /\ statusMessage = "Checking clipboard for component data..."
    /\ importedJsonData = Unset
    /\ importMethod \in {"image", "json"}

\* a session in which analyzeImage is also called without input
InitTrigger ==
    /\ InitController({<<>>}, {<<>>}, {<<>>}, FontChoices, {<<>>})
    /\ ImageChosen \/ PayloadImported \/ NothingChosen
    /\ isProcessing = FALSE
    /\ mounted = TRUE
    /\ clipboardApi = TRUE
    /\ manualPasteShown = FALSE
    /\ pending = EmptyBag
    /\ run = "idle"
    /\ analysisResult = NoResult
    /\ runs = 0
    /\ uiRead = 0
    /\ warned = 0

NextTrigger == NextSession \/ AnalyzeWithoutInput

SpecTrigger == InitTrigger /\ [][NextTrigger]_vars

\* the same with the event loop running what is ready: every continuation of the
\* construction and every timer callback of the controller is eventually run
LiveSession ==
    SpecSession /\ WF_vars(ConstructionStep) /\ WF_vars(TeardownTimer)

\* the external channel: the panel mounts without a clipboard API, messages arrive
InitExternal ==
    /\ InitController({<<>>}, {<<>>}, {<<>>}, {AllHostFonts}, {<<>>})
    /\ InitPanel({FALSE})

SpecExternal == InitExternal /\ [][NextExternal]_vars

\* the same with every promise of processComponentData settling
LiveExternal == SpecExternal /\ WF_vars(CoreResolves \/ CoreRejects)

\* ------------------------------------------------------------------- claims
\* the run has ended and processImageAnalysisResults returned its frame
Returned == pc = "done" /\ thrown = "none"

SectionNames(frame) == [k \in 1..Len(frame) |-> frame[k].name]

ExpectedSections ==
    (IF imageData.colors # <<>> THEN <<"Color Palette">> ELSE <<>>)
    \o (IF imageData.typography # <<>> THEN <<"Typography">> ELSE <<>>)
    \o (IF imageData.components # <<>> THEN <<"Components">> ELSE <<>>)

\* the children of the Components section of the returned frame, without the title
ComponentChildren ==
    LET sec == parentFrame[Len(parentFrame)].children IN SubSeq(sec, 2, Len(sec))

CallsOf(fn) == {k \in 1..Len(builderCalls) : builderCalls[k].fn = fn}

\* the claim's reading of the heuristic: at least 2 entries, the first two names equal
FirstTwoShareName ==
    Len(imageData.components) >= 2
    /\ imageData.components[1].name = imageData.components[2].name

\* the independent path's result: per component, in input order, the built node when
\* its createSystemComponent call succeeded and the fallback node when it failed
IndependentNodes ==
    LET calls == SelectSeq(builderCalls, LAMBDA c : c.fn = "createSystemComponent")
    IN  [k \in 1..Len(calls) |->
            IF calls[k].ok THEN CreateSystemComponent(imageData.components[k])
            ELSE FallbackComponent(imageData.components[k], k)]

\* C1: when processImageAnalysisResults returns, the parent frame's children are a
\* 'Color Palette' section iff colors is non-empty, a 'Typography' section iff
\* typography is non-empty, a 'Components' section iff components is non-empty, in
\* that order and nothing else; that frame is what was appended to the page.
C1_SectionsInOrder ==
    Returned =>
        /\ SectionNames(parentFrame) = ExpectedSections
        /\ \A k \in 1..Len(parentFrame) : parentFrame[k].kind = "FRAME"
        /\ Len(page) = 1
        /\ page[1].children = parentFrame

C1_Witness ==
    /\ Returned
    /\ imageData.colors = <<>>
    /\ imageData.typography # <<>>
    /\ imageData.components # <<>>
    /\ SectionNames(parentFrame) = <<"Typography", "Components">>

\* C2: in the independent-build path with K components, whichever createSystemComponent
\* calls fail, the Components section ends with exactly K children besides the title:
\* the built node of each component that succeeded and a fallback node for each that
\* failed, in input order.
C2_IndependentBatchKeepsCount ==
    (Returned /\ imageData.components # <<>> /\ ~FirstTwoShareName) =>
        /\ Len(ComponentChildren) = Len(imageData.components)
        /\ Len(IndependentNodes) = Len(imageData.components)
        /\ ComponentChildren = IndependentNodes

C2_Witness ==
    /\ Returned
    /\ ~FirstTwoShareName
    /\ Len(imageData.components) = MaxComponents
    /\ Cardinality({k \in CallsOf("createSystemComponent") : ~builderCalls[k].ok}) = 1
    /\ Cardinality({k \in 1..Len(ComponentChildren) :
                        ComponentChildren[k].via = "createComponent"}) = 1
    /\ Len(ComponentChildren) = MaxComponents

\* C3: a failing component build is never fatal: no error of ComponentBuilder escapes
\* processImageAnalysisResults, and a run in which no font load is rejected appends the
\* parent frame to the page and posts CREATION_COMPLETE, never CREATION_ERROR, whatever
\* builder calls failed.
C3_ComponentFailureNotFatal ==
    /\ thrown \in {"none", "loadFontAsync"}
    /\ (pc = "done" /\ thrown # "loadFontAsync") =>
          /\ posted = <<[type |-> "CREATION_COMPLETE"]>>
          /\ Len(page) = 1
    /\ (pc = "done" /\ builderCalls # <<>>) =>
          posted = <<[type |-> "CREATION_COMPLETE"]>>

C3_Witness ==
    /\ pc = "done"
    /\ imageData.components # <<>>
    /\ \A k \in 1..Len(builderCalls) : ~builderCalls[k].ok
    /\ Len(builderCalls) > Len(imageData.components)
    /\ posted = <<[type |-> "CREATION_COMPLETE"]>>
    /\ Len(page) = 1

\* C4: createComponentSet is invoked exactly when the list has at least 2 entries and
\* the first two share a name, then once and with the entire list; otherwise it is
\* never invoked and every component is built through createSystemComponent.
C4_VariantHeuristic ==
    /\ \A k \in CallsOf("createComponentSet") :
          /\ FirstTwoShareName
          /\ k = 1
          /\ builderCalls[k].arg = imageData.components
    /\ (pc \in {"componentsEnd", "finish", "done"} /\ thrown = "none"
            /\ imageData.components # <<>>) =>
          IF FirstTwoShareName
          THEN Cardinality(CallsOf("createComponentSet")) = 1
          ELSE /\ CallsOf("createComponentSet") = {}
               /\ [k \in 1..Len(builderCalls) |-> builderCalls[k].arg[1]]
                      = imageData.components

C4_Witness ==
    /\ Returned
    /\ Len(imageData.components) = 3
    /\ imageData.components[1].name = "Btn"
    /\ imageData.components[2].name = "Btn"
    /\ imageData.components[3].name = "Card"
    /\ builderCalls[1].fn = "createComponentSet"
    /\ builderCalls[1].arg = imageData.components

\* C5: when the variant-set path is taken and createComponentSet fails, the run goes
\* on: every component is then built through the per-component path, with its
\* fallback, and the Components section receives one node per component, in order.
C5_VariantFailureDemotes ==
    (pc \in {"finish", "done"} /\ thrown = "none" /\ builderCalls # <<>>
        /\ builderCalls[1].fn = "createComponentSet" /\ ~builderCalls[1].ok) =>
        /\ Len(ComponentChildren) = Len(imageData.components)
        /\ ComponentChildren = IndependentNodes
        /\ pc = "done" => posted = <<[type |-> "CREATION_COMPLETE"]>>

C5_Witness ==
    /\ Returned
    /\ FirstTwoShareName
    /\ builderCalls[1].fn = "createComponentSet"
    /\ ~builderCalls[1].ok
    /\ Len(ComponentChildren) = Len(imageData.components)
    /\ \E k \in 1..Len(ComponentChildren) : ComponentChildren[k].via = "createComponent"
    /\ \E k \in 1..Len(ComponentChildren) : ComponentChildren[k].via = "createSystemComponent"

StylesNamed(name) == {k \in 1..Len(styles) : styles[k].name = name}

\* the first colour of the input with the name of colour k
FirstColorNamed(n) ==
    imageData.colors[CHOOSE k \in 1..Len(imageData.colors) :
        /\ imageData.colors[k].name = n
        /\ \A j \in 1..(k - 1) : imageData.colors[j].name # n]

\* the swatch rectangles of the palette section of the returned frame
Swatches ==
    LET row == parentFrame[1].children[2].children
    IN  [k \in 1..Len(row) |-> row[k].children[1]]

\* C6: at most one paint style exists per name 'Color/<name>': the styles of the
\* document before the run are kept unchanged, a style created by the run carries the
\* paint of the first colour of its name, and every swatch of a name links to the one
\* style of that name, whatever its own RGB.
C6_OnePaintStylePerName ==
    /\ \A n \in ColorNames : Cardinality(StylesNamed(<<"Color/", n>>)) <= 1
    /\ Len(styles) >= Len(styles0)
    /\ SubSeq(styles, 1, Len(styles0)) = styles0
    /\ \A k \in (Len(styles0) + 1)..Len(styles) :
          styles[k].type = "PAINT" =>
              /\ \E j \in 1..Len(imageData.colors) : imageData.colors[j].name = styles[k].name[2]
              /\ styles[k].paints = <<PaintOf(FirstColorNamed(styles[k].name[2]))>>
    /\ (Returned /\ imageData.colors # <<>>) =>
          /\ Len(Swatches) = Len(imageData.colors)
          /\ \A k \in 1..Len(Swatches) :
                /\ Swatches[k].fillStyleId \in StylesNamed(ColorStyleName(imageData.colors[k]))
                /\ Swatches[k].fills = <<PaintOf(imageData.colors[k])>>

C6_Witness ==
    /\ Returned
    /\ Len(imageData.colors) = 2
    /\ imageData.colors[1].name = imageData.colors[2].name
    /\ imageData.colors[1].color # imageData.colors[2].color
    /\ styles0 = <<>>
    /\ Cardinality(StylesNamed(ColorStyleName(imageData.colors[1]))) = 1
    /\ Swatches[1].fillStyleId = Swatches[2].fillStyleId
    /\ styles[Swatches[2].fillStyleId].paints # Swatches[2].fills

TextStyleNames == {TextStyleName(t) : t \in TypographyData \cup FewTypography}

\* the sample text nodes of the typography section of the returned frame
TypographySamples ==
    LET sec == parentFrame[Len(parentFrame) -
                           (IF imageData.components # <<>> THEN 1 ELSE 0)].children
    IN  SubSeq(sec, 2, Len(sec))

\* C7: at most one text style exists per name 'Text/<family>-<style>/<size>px': the
\* styles of the document before the run are kept, the run adds a text style only for
\* a name no style has yet, and the sample of every group links to the one style of
\* its name, also when two groups resolve to the same name.
C7_OneTextStylePerName ==
    /\ \A n \in TextStyleNames : Cardinality(StylesNamed(n)) <= 1
    /\ SubSeq(styles, 1, Len(styles0)) = styles0
    /\ (Returned /\ imageData.typography # <<>>) =>
          /\ Len(TypographySamples) = Len(textGroups)
          /\ \A k \in 1..Len(textGroups) :
                TypographySamples[k].textStyleId
                    \in StylesNamed(TextStyleName(textGroups[k].items[1]))

C7_Witness ==
    /\ Returned
    /\ styles0 = <<>>
    /\ Len(textGroups) = 2
    /\ textGroups[1].items[1].fontSize = "16"
    /\ textGroups[2].items[1].fontSize = "undefined"
    /\ TextStyleName(textGroups[1].items[1]) = TextStyleName(textGroups[2].items[1])
    /\ Cardinality(StylesNamed(TextStyleName(textGroups[1].items[1]))) = 1
    /\ TypographySamples[1].textStyleId = TypographySamples[2].textStyleId

\* an error message the panel shows: `{error && <div className="error-message">}`
UserVisible(e) == e \notin {NoError, ""}

\* a field is present in a parsed payload
Present(x) == x # "absent"

\* a step in which processClipboardText runs on the text
ClipboardTextStep(text) ==
    \/ CheckClipboardResolvesWith(text)
    \/ PasteResolvesWith(text)
    \/ ManualPasteAreaWith(text)
    \/ ManualPasteContainerWith(text)

\* the payload has a truthy version, a truthy imageAnalysis and, for the clipboard,
\* a truthy colors, typography or components
PayloadOkForFile(v) ==
    v.type = "object" /\ Truthy(v.version) /\ Truthy(v.imageAnalysis.state)
PayloadOkForClipboard(v) ==
    /\ PayloadOkForFile(v)
    /\ \E f \in {"colors", "typography", "components"} : Truthy(v.imageAnalysis[f])

\* the payload has the fields, whatever their values
PayloadHasFieldsForFile(v) ==
    v.type = "object" /\ Present(v.version) /\ Present(v.imageAnalysis.state)
PayloadHasFieldsForClipboard(v) ==
    /\ PayloadHasFieldsForFile(v)
    /\ \E f \in {"colors", "typography", "components"} : Present(v.imageAnalysis[f])

\* the texts of each claim's case
UnparseableOrLackingFields ==
    {t \in Texts : ~Parses(t) \/ ~PayloadHasFieldsForFile(t.value)}
FailingClipboardValidation ==
    {t \in Texts : ~Parses(t) \/ ~PayloadOkForClipboard(t.value)}
ParseableTexts == {t \in Texts : Parses(t)}

\* C8: importing a JSON file whose content is not parseable JSON, or whose parsed
\* content lacks a top-level version or imageAnalysis, leaves a user-visible error
\* and leaves importedJsonData, importMethod and imagePreview as they were.
C8_InvalidFileSetsError ==
    [][\/ /\ UserVisible(error')
          /\ UNCHANGED <<importedJsonData, importMethod, imagePreview>>
       \/ ~\E text \in UnparseableOrLackingFields : JsonReaderLoadWith(text)]_vars

\* C9: processClipboardText on text that is empty, is not parseable JSON or parses
\* to a payload failing validation sets an error message (for text that is not JSON,
\* 'No valid component data found in clipboard') and changes nothing else of the
\* panel's state: importedJsonData, importMethod, imagePreview, and also imageFile,
\* statusMessage and isProcessing, stay as they were.
C9_InvalidClipboardTextOnlySetsError ==
    [][/\ \/ /\ UserVisible(error')
             /\ UNCHANGED <<importedJsonData, importMethod, imagePreview, imageFile,
                            statusMessage, isProcessing>>
          \/ ~\E text \in FailingClipboardValidation : ClipboardTextStep(text)
       /\ \/ error' = "No valid component data found in clipboard"
          \/ ~ClipboardTextStep(NotJsonText)]_vars

C9_Witness ==
    /\ error = "No valid component data found in clipboard"
    /\ importedJsonData # Unset
    /\ importMethod = "json"
    /\ imagePreview = <<"data:image/jpeg;base64,", "img">>

\* whether the step took the payload: the accepting branch of either path
Accepted(v) == importedJsonData' = v /\ importMethod' = "json"
Rejected == UNCHANGED <<importedJsonData, importMethod>> /\ UserVisible(error')

\* the parseable texts whose payload has the fields, and those whose payload has
\* them with truthy values
HasFieldsForClipboard == {t \in ParseableTexts : PayloadHasFieldsForClipboard(t.value)}
HasFieldsForFile == {t \in ParseableTexts : PayloadHasFieldsForFile(t.value)}
OkForClipboard == {t \in ParseableTexts : PayloadOkForClipboard(t.value)}
OkForFile == {t \in ParseableTexts : PayloadOkForFile(t.value)}

\* every clipboard step on a text of `good` accepts its payload and clears the error,
\* every one on another parseable text rejects it; likewise the file path
AcceptsExactly(goodClipboard, goodFile) ==
    /\ \A text \in goodClipboard :
          (Accepted(text.value) /\ error' = "") \/ ~ProcessClipboardText(text)
    /\ Rejected \/ ~\E text \in ParseableTexts \ goodClipboard : ProcessClipboardText(text)
    /\ \A text \in goodFile : Accepted(text.value) \/ ~JsonReaderLoadWith(text)
    /\ Rejected \/ ~\E text \in ParseableTexts \ goodFile : JsonReaderLoadWith(text)

\* C10 as stated: the clipboard path accepts a parsed payload iff version,
\* imageAnalysis and one of colors, typography, components are present; the file
\* path accepts iff version and imageAnalysis are present.
C10_AcceptsIffPresent == [][AcceptsExactly(HasFieldsForClipboard, HasFieldsForFile)]_vars

\* C10, amended: the clipboard path accepts a parsed payload (importedJsonData becomes
\* the payload, importMethod 'json', error '') iff version, imageAnalysis and one of
\* imageAnalysis.colors, typography, components are present with a truthy value; the
\* file path accepts iff version and imageAnalysis are present with a truthy value.
\* A payload not accepted leaves importedJsonData and importMethod as they were and
\* sets an error.
C10_AcceptsIffTruthy == [][AcceptsExactly(OkForClipboard, OkForFile)]_vars

C10_Witness ==
    /\ importedJsonData # Unset
    /\ importedJsonData.imageAnalysis.colors = "absent"
    /\ importedJsonData.imageAnalysis.typography = "array"
    /\ importedJsonData.imageAnalysis.components = "absent"
    /\ importMethod = "json"
    /\ error = ""
    /\ statusMessage = "Component data detected! Click \"Create Components\" to proceed."

\* a step in which a clipboard read fails or finds no clipboard API
ClipboardFailureStep ==
    \/ CheckClipboardRejects
    \/ PasteRejects
    \/ ~clipboardApi /\ (Mount \/ CheckClipboardButton \/ HandlePasteFromClipboard)

\* C11: in every reachable state of the panel importedJsonData is unset or a payload
\* with a top-level version and a top-level imageAnalysis, whichever handler set it.
C11_ImportedDataValidated ==
    importedJsonData = Unset \/ PayloadHasFieldsForFile(importedJsonData)

\* C12: once the controller has started the construction for an
\* IMAGE_ANALYSIS_COMPLETE message, figma.closePlugin is not invoked until the
\* construction has returned the frame or raised its top-level error.
C12_NoMidBuildCancellation == pc \notin {"idle", "done"} => closed = 0

C14_CloseAfterDelay == [][closed' = closed \/ ~HandleClosePlugin]_vars

\* C15: when fileToBase64 or the vision call rejects, no IMAGE_ANALYSIS_COMPLETE is
\* emitted, error is set to a message containing the failure's message and
\* isProcessing is false at the end of the run; isProcessing is also false at the end
\* of every successful run.
C15_PrimaryFailureIsFatal ==
    [][/\ \/ /\ UNCHANGED inbox
             /\ error' = AnalyzingError(ReaderFailure.cause)
             /\ ~isProcessing'
          \/ ~Base64Rejects
       /\ \/ /\ UNCHANGED inbox
             /\ error' = AnalyzingError(VisionFailure.cause)
             /\ ~isProcessing'
          \/ ~VisionRejects
       /\ ~isProcessing' \/ ~(EnrichResolves \/ EnrichRejects)]_vars

\* C16: when figmaService.findSimilarComponents rejects, the step emits one
\* IMAGE_ANALYSIS_COMPLETE message carrying the analysis result as the primary step
\* left it, ends the run and leaves error unset.
C16_EnrichmentFailureIsNotFatal ==
    [][\/ /\ inbox' = Append(inbox, Message("IMAGE_ANALYSIS_COMPLETE", analysisResult))
          /\ error' = NoError
          /\ UNCHANGED analysisResult
          /\ run' = "idle"
       \/ ~EnrichRejects]_vars

C16_Witness ==
    /\ warned = 1
    /\ runs = 1
    /\ error = NoError
    /\ handled = 1
    /\ imageData = analysisResult
    /\ imageData.colors # <<>>
    /\ Len(page) = 1

\* C20: the controller starts processImageAnalysisResults for the first
\* IMAGE_ANALYSIS_COMPLETE message only: a further one changes nothing of the
\* construction, and the page never holds more than one parent frame.
C20_ResultConsumedOnce ==
    /\ [](Len(page) <= 1)
    /\ [][\/ UNCHANGED <<imageData, pc, parentFrame, page, onceHandlers>>
          \/ ~(handled >= 1 /\ HandleAnalysisComplete)]_vars

C20_Witness ==
    /\ handled = 2
    /\ Len(page) = 1
    /\ closed = 0

\* the events the claim calls accepted, and the others
TaggedWithPayload(ev) ==
    /\ ev.data = "object"
    /\ ev.source \in {"sticker-chrome-extension", "sticker-system"}
    /\ ev.componentData.given # "absent" \/ ev.payload.given # "absent"
SimplifiedEvents ==
    {ev \in ExternalEvents : TaggedWithPayload(ev) /\ ComponentDataOf(ev).given = "object"
                              /\ ComponentDataOf(ev).simplified = "true"}
OtherEvents == {ev \in ExternalEvents : ~TaggedWithPayload(ev)}

\* C17: for an accepted external message whose payload has simplified: true the
\* listener posts one EXTERNAL_DATA_RECEIVED message carrying the payload as it came
\* with simplified: true, issues one notification and starts no
\* UnifiedCore.processComponentData; no simplified payload is ever handed to it.
C17_SimplifiedPassedThrough ==
    /\ [](\A k \in 1..Len(coreCalls) : coreCalls[k].simplified # "true")
    /\ [][\A ev \in SimplifiedEvents :
            \/ /\ Len(posted') = Len(posted) + 1
               /\ posted'[Len(posted')].type = "EXTERNAL_DATA_RECEIVED"
               /\ posted'[Len(posted')].data = ComponentDataOf(ev)
               /\ posted'[Len(posted')].simplified = TRUE
               /\ Len(notifications') = Len(notifications) + 1
               /\ UNCHANGED <<coreCalls, corePending>>
            \/ ~ExternalMessageWith(ev)]_vars

C17_Witness ==
    /\ Len(externals) = 1
    /\ externals[1] \in SimplifiedEvents
    /\ Len(posted) = 1
    /\ posted[1].simplified = TRUE
    /\ Len(notifications) = 1
    /\ coreCalls = <<>>
    /\ importedJsonData = NoVersionPayload

\* C18: a message without a recognized source tag, or with neither componentData nor
\* data, makes the listener post nothing to the panel and start no UnifiedCore
\* processing; whatever is posted or processed belongs to a received message with a
\* recognized tag.
C18_OnlyRecognizedForwarded ==
    /\ [](\A k \in 1..Len(posted) :
             \E j \in 1..Len(externals) : ~(externals[j] \in OtherEvents))
    /\ [][\/ UNCHANGED <<posted, coreCalls, corePending>>
          \/ ~\E ev \in OtherEvents : ExternalMessageWith(ev)]_vars

C18_Witness ==
    /\ Len(externals) = 1
    /\ externals[1].source = "other"
    /\ externals[1].componentData \in ExternalPayloads
    /\ posted = <<>>
    /\ coreCalls = <<>>
    /\ importedJsonData = Unset

\* C19: whenever reading the clipboard fails or the clipboard API is unavailable (on
\* the mount check, on either Paste from Clipboard button), the step leaves a
\* user-visible error and the manual-paste container shown, and leaves
\* importedJsonData and importMethod as they were.
C19_ClipboardFailureFallsBack ==
    [][\/ /\ UserVisible(error')
          /\ manualPasteShown'
          /\ UNCHANGED <<importedJsonData, importMethod>>
       \/ ~ClipboardFailureStep]_vars

C19_Witness ==
    /\ error = "Could not access clipboard. Please try pasting manually into a text field."
    /\ manualPasteShown
    /\ importedJsonData # Unset
    /\ importMethod = "image"

\* C21: every click on the primary button with importMethod 'json' and a payload the
\* file or clipboard validation accepts converts the payload without failing: the
\* run goes on to the enrichment (after which IMAGE_ANALYSIS_COMPLETE is emitted) and
\* no error is set.
C21_AcceptedPayloadConverts ==
    [][\/ run' = "enrich" /\ error' = NoError
       \/ ~(/\ importMethod = "json"
            /\ FileValid(importedJsonData) \/ ClipboardValid(importedJsonData)
            /\ AnalyzeImage)]_vars

\* the CREATION_COMPLETE and CREATION_ERROR messages posted so far
CreationMessages(type) == {k \in 1..Len(posted) : posted[k].type = type}

\* the safety half of C22: never more than one of the two messages, one of them once
\* the handler has ended, CREATION_COMPLETE only with the parent frame appended to
\* the page and selected, CREATION_ERROR only with a top-level error
CreationMessagesExclusive ==
    /\ Cardinality(CreationMessages("CREATION_COMPLETE"))
          + Cardinality(CreationMessages("CREATION_ERROR")) <= 1
    /\ pc = "done" =>
          Cardinality(CreationMessages("CREATION_COMPLETE"))
             + Cardinality(CreationMessages("CREATION_ERROR")) = 1
    /\ CreationMessages("CREATION_COMPLETE") # {} =>
          /\ thrown = "none"
          /\ page = <<SectionNode("Sticker Component Analysis", parentFrame)>>
          /\ selection = page
    /\ CreationMessages("CREATION_ERROR") # {} => thrown # "none" /\ page = <<>>

\* C22: every IMAGE_ANALYSIS_COMPLETE the controller handles is answered by exactly
\* one of CREATION_COMPLETE and CREATION_ERROR, never both; CREATION_COMPLETE comes
\* only after the parent frame is appended to the page and selected, CREATION_ERROR
\* only after a top-level error of the construction.
C22_ExactlyOneCreationMessage ==
    /\ []CreationMessagesExclusive
    /\ (pc # "idle") ~> (Len(posted) = 1)

C24_VariantSetStandsAlone ==
    (pc \in {"finish", "done"} /\ thrown = "none" /\ builderCalls # <<>>
        /\ builderCalls[1].fn = "createComponentSet" /\ builderCalls[1].ok) =>
        /\ parentFrame[Len(parentFrame)].name = "Components"
        /\ parentFrame[Len(parentFrame)].children[1] = TitleNode("UI Components")
        /\ ComponentChildren = <<CreateComponentSet(imageData.components)>>
        /\ CallsOf("createSystemComponent") = {}
        /\ Len(builderCalls) = 1

C24_Witness ==
    /\ Returned
    /\ Len(imageData.components) = 3
    /\ FirstTwoShareName
    /\ imageData.components[3].name # imageData.components[1].name
    /\ builderCalls = <<[fn |-> "createComponentSet", arg |-> imageData.components,
                         ok |-> TRUE]>>
    /\ Len(ComponentChildren) = 1
    /\ ComponentChildren[1].kind = "COMPONENT_SET"

\* C25: a call of analyzeImage while the current import method has no input only
\* sets an error: isProcessing stays false, no run starts and nothing is emitted;
\* and a click starts a run only when none is in flight, isProcessing being true
\* exactly while a run is in flight.
C25_NoRunWithoutInput ==
    /\ [][\/ /\ error' \in {"Please select an image first.",
                            "Please import a JSON file first."}
             /\ ~isProcessing'
             /\ UNCHANGED <<run, inbox, analysisResult, statusMessage>>
          \/ ~AnalyzeWithoutInput]_vars
    /\ [][run = "idle" \/ ~AnalyzeImage]_vars
    /\ [](isProcessing <=> run # "idle")
    /\ [](run # "idle" => ~NoInput)

C25_Witness ==
    /\ importMethod = "json"
    /\ importedJsonData = Unset
    /\ error = "Please import a JSON file first."
    /\ ~isProcessing
    /\ run = "idle"
    /\ inbox = <<>>
    /\ runs = 1

\* C26: every step that accepts a valid payload, through processClipboardText or
\* through the reader of a JSON file, leaves importedJsonData holding the payload,
\* importMethod 'json' and no user-visible error.
C26_AcceptanceClearsError ==
    [][/\ \A text \in OkForClipboard :
             (Accepted(text.value) /\ ~UserVisible(error')) \/ ~ProcessClipboardText(text)
       /\ \A text \in OkForFile :
             (Accepted(text.value) /\ ~UserVisible(error')) \/ ~JsonReaderLoadWith(text)]_vars

\* the accepted events whose payload is not marked simplified
RegularEvents ==
    {ev \in ExternalEvents : TaggedWithPayload(ev) /\ ComponentDataOf(ev).given = "object"
                              /\ ComponentDataOf(ev).simplified # "true"}

\* the messages posted for regular payloads
RegularPosts == {k \in 1..Len(posted) : ~posted[k].simplified}

SizeAndFamily(t) == <<t.fontSize, t.fontName.defined, t.fontName.family>>

\* the positions of the entries that are the first of their (fontSize, family)
FirstOfGroup ==
    {k \in 1..Len(imageData.typography) :
        \A j \in 1..(k - 1) :
            SizeAndFamily(imageData.typography[j]) # SizeAndFamily(imageData.typography[k])}

\* the node is a sample text built from the entry: its font, size and characters
SampleOf(node, t) ==
    /\ node.kind = "TEXT"
    /\ node.fontName = (IF t.fontName.defined THEN t.fontName ELSE InterRegular)
    /\ node.fontSize = (IF t.fontSize = "undefined" THEN "16" ELSE t.fontSize)
    /\ node.characters =
          (IF t.text # "" THEN <<t.text>> ELSE <<node.fontName.family, " ", node.fontSize, "px">>)

\* C28: the Typography section of the returned frame holds its title and then one
\* sample text node per distinct (fontSize, font family) of the input, in the order of
\* first occurrence, each built from the first entry of its group and linked to the
\* one text style of that entry's name; entries that differ in font style only share
\* a group.
C28_OneSamplePerGroup ==
    (Returned /\ imageData.typography # <<>>) =>
        LET sec == parentFrame[Len(parentFrame) -
                               (IF imageData.components # <<>> THEN 1 ELSE 0)]
        IN  /\ sec.name = "Typography"
            /\ sec.children[1] = TitleNode("Text Styles")
            /\ Len(TypographySamples) = Cardinality(FirstOfGroup)
            /\ \A k \in FirstOfGroup :
                  LET n == Cardinality({j \in FirstOfGroup : j <= k})
                  IN  /\ SampleOf(TypographySamples[n], imageData.typography[k])
                      /\ StylesNamed(TextStyleName(imageData.typography[k]))
                            = {TypographySamples[n].textStyleId}

C28_Witness ==
    /\ Returned
    /\ Len(imageData.typography) = 2
    /\ imageData.typography[1].fontName = FontNameOf("Inter", "Bold")
    /\ imageData.typography[2].fontName = FontNameOf("Inter", "Regular")
    /\ imageData.typography[1].fontSize = imageData.typography[2].fontSize
    /\ imageData.typography[1].text = ""
    /\ imageData.typography[2].text = "Hello"
    /\ Len(TypographySamples) = 1
    /\ TypographySamples[1].fontName = FontNameOf("Inter", "Bold")
    /\ styles0 = <<>>
    /\ Cardinality({k \in 1..Len(styles) : styles[k].type = "TEXT"}) = 1

\* the node is the fallback of the component at position k (index k - 1)
FallbackFor(node, comp, k) ==
    /\ node.kind = "COMPONENT"
    /\ node.via = "createComponent"
    /\ node.width = comp.width
    /\ node.height = comp.height
    /\ node.name = (IF comp.name = "" THEN <<"Component ", ToString(k)>> ELSE <<comp.name>>)
    /\ node.fills = (IF comp.fills = "undefined" THEN "default" ELSE comp.fills)

\* C29: in the Components section of the frame, the node standing for a component
\* whose createSystemComponent call failed is a fallback with the component's width
\* and height, its name or 'Component <index+1>' when the name is empty, and its
\* fills when it has fills, the default fills otherwise.
C29_FallbackKeepsGeometry ==
    (pc \in {"finish", "done"} /\ thrown = "none") =>
        LET calls == SelectSeq(builderCalls, LAMBDA c : c.fn = "createSystemComponent")
        IN  \A k \in 1..Len(calls) :
                ~calls[k].ok =>
                    FallbackFor(ComponentChildren[k], imageData.components[k], k)

C29_Witness ==
    /\ Returned
    /\ Len(imageData.components) = 2
    /\ imageData.components[1].fills = "fills"
    /\ imageData.components[1].name = "Card"
    /\ imageData.components[2].name = ""
    /\ imageData.components[2].fills = "undefined"
    /\ \A k \in 1..Len(builderCalls) : ~builderCalls[k].ok
    /\ ComponentChildren[1].name = <<"Card">>
    /\ ComponentChildren[1].fills = "fills"
    /\ ComponentChildren[2].name = <<"Component ", "2">>
    /\ ComponentChildren[2].fills = "default"
    /\ ComponentChildren[2].width = 10
    /\ ComponentChildren[2].height = 20

\* C30: selecting an image file makes it the imageFile (its preview is being read),
\* sets importMethod to 'image', unsets importedJsonData and clears the error;
\* selecting a .json file, and what its reader does later, leaves imageFile alone.
C30_ImageSelectionSwitchesInput ==
    [][/\ \/ /\ imageFile' \in ImageFiles
             /\ BagIn(Op("image", imageFile'), pending')
             /\ importMethod' = "image"
             /\ importedJsonData' = Unset
             /\ ~UserVisible(error')
          \/ ~SelectImageFile
       /\ \/ UNCHANGED imageFile
          \/ ~(SelectJsonFile \/ JsonReaderLoad \/ JsonReaderError)]_vars

\* an image chosen after a JSON file had been imported while an error was displayed
C30_Witness ==
    /\ imageFile = "b.png"
    /\ BagIn(Op("image", "b.png"), pending)
    /\ importMethod = "image"
    /\ importedJsonData = Unset
    /\ error = NoError
    /\ statusMessage = "JSON data loaded successfully. Click \"Create Components\" to proceed."

====
